---- MODULE Spec2Model ----
(***************************************************************************)
(* A model of the provider-fallback router (services/modelRouter.js and    *)
(* services/modelRouter_optimized.js), of the tolerant JSON decoder        *)
(* (extractJSON), of the review sanitizer (validateReview), of the review  *)
(* route that uses the three, of the request timeout of the server, of the *)
(* webhook handler and of buildFileContext.                                *)
(*                                                                         *)
(* JavaScript strings whose characters matter only as "whitespace or not"  *)
(* (message contents, provider texts, review fields) are run-length        *)
(* sequences: <<[ws |-> FALSE, n |-> 5000]>> is a string of 5000           *)
(* non-whitespace characters.  Texts handed to the decoder are sequences   *)
(* of one-character strings.                                               *)
(***************************************************************************)
EXTENDS Integers, Sequences, FiniteSets, TLC

VARIABLES
    variant,            \* which router file is loaded: "main" | "optimized"
    env,                \* process.env: the three API keys
    mockMode,           \* const mockMode = process.env.MOCK_MODE === "true"
    gemini, groq, openai,   \* module-level clients: TRUE = constructed, FALSE = null
    clientsInitialized, \* modelRouter.js only
    pc,                 \* position of the callModel invocation
    modelName, messages, maxTokens,   \* its arguments
    idx,                \* loop position in FALLBACK_MODELS (1-based)
    inflight,           \* attempts whose provider call is awaited
    calls,              \* provider calls issued by this invocation, in order
    failedAttempts,     \* modelRouter_optimized.js: const failedAttempts = []
    trace,              \* how each issued provider call ended (observation)
    outcome,            \* what callModel returned or threw
    data,               \* the decoded value handed to validateReview
    review,             \* the document validateReview returned
    spc,                \* "ready" before validateReview has run, "done" after
    text,               \* the argument of extractJSON
    origin,             \* the JSON object the text was written from (observation)
    decoded,            \* what extractJSON returned or threw
    dpc,                \* "ready" before extractJSON has run, "done" after
    req,                \* the request the review route handles
    upstream,           \* what the awaited callModel settled with (observation)
    sent,               \* the response sent through res
    hpc,                \* position of the review handler
    server,             \* one request seen by the server: its timer, handler and response
    hook,               \* one POST /webhook: the request, the handler's position, what it did
    ctxt,               \* one buildFileContext call: its arguments and its result
    twin                \* one request handed to both routers, and how each handled it

routerVars == <<variant, env, mockMode, gemini, groq, openai, clientsInitialized,
                pc, modelName, messages, maxTokens, idx, inflight, calls, failedAttempts,
                trace, outcome>>

sanitizerVars == <<data, review, spc>>

decoderVars == <<text, origin, decoded, dpc>>

handlerVars == <<req, upstream, sent, hpc>>

\* the components outside the router, the decoder, the sanitizer and the review route
otherVars == <<server, hook, ctxt, twin>>

vars == <<routerVars, sanitizerVars, decoderVars, handlerVars, otherVars>>

\* the state outside the router
notRouter == <<sanitizerVars, decoderVars, handlerVars, otherVars>>

(***************************************************************************)
(* Run-length strings                                                      *)
(***************************************************************************)
Txt(n) == IF n = 0 THEN <<>> ELSE <<[ws |-> FALSE, n |-> n]>>
Blank(n) == IF n = 0 THEN <<>> ELSE <<[ws |-> TRUE, n |-> n]>>

RECURSIVE StrLen(_)
StrLen(s) == IF s = <<>> THEN 0 ELSE Head(s).n + StrLen(Tail(s))

Concat(a, b) ==
    IF a = <<>> THEN b
    ELSE IF b = <<>> THEN a
    ELSE IF a[Len(a)].ws = b[1].ws
         THEN SubSeq(a, 1, Len(a) - 1)
              \o <<[ws |-> b[1].ws, n |-> a[Len(a)].n + b[1].n]>>
              \o Tail(b)
         ELSE a \o b

\* String.prototype.trim
Trim(s) ==
    LET t == IF s # <<>> /\ s[1].ws THEN Tail(s) ELSE s
    IN  IF t # <<>> /\ t[Len(t)].ws THEN SubSeq(t, 1, Len(t) - 1) ELSE t

\* mutant of Substring: nothing is cut
Substring_uncut(s, k) == s

\* String.prototype.substring(0, k)
RECURSIVE Substring(_, _)
Substring(s, k) ==
    IF s = <<>> \/ k <= 0 THEN <<>>
    ELSE IF Head(s).n >= k THEN <<[ws |-> Head(s).ws, n |-> k]>>
    ELSE <<Head(s)>> \o Substring(Tail(s), k - Head(s).n)

(***************************************************************************)
(* JavaScript values as far as the router looks at them                    *)
(***************************************************************************)
JStr(s) == [t |-> "string", s |-> s, n |-> 0]
JNum(n) == [t |-> "number", s |-> <<>>, n |-> n]
JNaN == [t |-> "nan", s |-> <<>>, n |-> 0]
JUndef == [t |-> "undefined", s |-> <<>>, n |-> 0]

TypeofString(v) == v.t = "string"
Truthy(v) ==
    \/ v.t = "string" /\ v.s # <<>>
    \/ v.t = "number" /\ v.n # 0

\* String(v) as Array.prototype.join applies it to an element
ToStr(v) ==
    CASE v.t = "string" -> v.s
      [] v.t = "number" -> Txt(IF v.n < 0 THEN 2 ELSE 1)
      [] v.t = "nan" -> Txt(3)
      [] OTHER -> <<>>

(***************************************************************************)
(* Router: configuration and inputs                                        *)
(***************************************************************************)
MaxMessages == 2        \* longest messages array that is tried
MaxContentLen == 100000 \* validateMessages: msg.content.length > 100000
TokenCeiling == 2000    \* Math.min(maxTokens, 2000)
DefaultMaxTokens == 200 \* callModel(modelName, messages, maxTokens = 200)

FALLBACK_MODELS == <<
    [provider |-> "gemini", model |-> "gemini-2.0-flash"],
    [provider |-> "gemini", model |-> "gemini-2.0-pro"],
    [provider |-> "groq",   model |-> "llama-3.1-70b-versatile"],
    [provider |-> "openai", model |-> "gpt-4.1-mini"],
    [provider |-> "ollama", model |-> "llama3"] >>

NumAttempts == Len(FALLBACK_MODELS)

\* no callModel invocation, no model name
NoModel == ""

\* pickModel(type) of router v, where configured is the value of the
\* environment variable the router reads for that type ("" when unset)
pickModel(v, type, configured) ==
    LET default == IF v = "main" THEN "gemini-2.0-pro" ELSE "gemini-2.0-flash"
        builtin == CASE type = "completion" -> "gemini-2.0-flash"
                     [] type = "chat" -> default
                     [] type = "review" -> "gemini-2.0-pro"
                     [] OTHER -> ""
        picked == IF configured # "" THEN configured ELSE builtin
    IN  IF type \in {"completion", "chat", "review"} /\ picked # "" THEN picked ELSE default

\* the model names the routes pass to callModel of router v: pickModel's for
\* a completion or a chat, with MODEL_... unset or naming the last fallback
ModelNames(v) ==
    { pickModel(v, type, configured) :
        type \in {"completion", "chat"}, configured \in {"", "llama3"} }

\* One element of the messages array.
MObj(c) == [t |-> "object", content |-> c]
Filler == MObj(JStr(Txt(5)))
NotAnArray == [t |-> "other", items |-> <<>>]
\* arrays of n <= MaxMessages messages: n - 1 well-formed ones, then a probe
MessageArgs ==
    LET Probes ==
            { MObj(JStr(Txt(5))), MObj(JStr(Blank(2))), MObj(JStr(<<>>)),
              MObj(JStr(Txt(MaxContentLen))), MObj(JStr(Txt(MaxContentLen + 1))),
              MObj(JNum(42)), MObj(JUndef), [t |-> "null", content |-> JUndef] }
    IN  {NotAnArray, [t |-> "array", items |-> <<>>]} \cup
        { [t |-> "array", items |-> [i \in 1..n |-> IF i = n THEN m ELSE Filler]] :
            <<n, m>> \in (1..MaxMessages) \X Probes }

MaxTokensArgs ==
    { JUndef, JNum(-1), JNum(0), JNum(1), JNum(TokenCeiling), JNum(TokenCeiling + 1),
      JNaN, JStr(Txt(2)) }

\* requests that pass every check of both routers
PlainArgs ==
    { <<[t |-> "array", items |-> <<Filler>>], JUndef>>,
      <<[t |-> "array", items |-> <<Filler, MObj(JStr(Blank(2)))>>], JNum(50)>>,
      <<[t |-> "array", items |-> <<MObj(JStr(Txt(MaxContentLen)))>>],
        JNum(TokenCeiling + 1)>> }

\* the default parameter value applies to an argument that is undefined
EffectiveMaxTokens(mt) == IF mt.t = "undefined" THEN JNum(DefaultMaxTokens) ELSE mt

(***************************************************************************)
(* Router: pure parts                                                      *)
(***************************************************************************)
NoError == "none"

\* modelRouter.js validateMessages: the message of the Error thrown, or NoError
RECURSIVE ValidateItems(_)
ValidateItems(items) ==
    IF items = <<>> THEN NoError
    ELSE LET msg == Head(items) IN
         IF msg.t # "object" THEN "each message must be an object"
         ELSE IF ~Truthy(msg.content) \/ ~TypeofString(msg.content)
              THEN "each message must have a non-empty string content field"
         ELSE IF StrLen(msg.content.s) > MaxContentLen
              THEN "message content exceeds maximum length (100KB)"
         ELSE ValidateItems(Tail(items))

validateMessages(msgs) ==
    IF msgs.t # "array" \/ Len(msgs.items) = 0
    THEN "messages must be a non-empty array"
    ELSE ValidateItems(msgs.items)

\* typeof maxTokens !== "number" || maxTokens < 1   (NaN < 1 is false)
MaxTokensRejected(mt) ==
    \/ mt.t \notin {"number", "nan"}
    \/ mt.t = "number" /\ mt.n < 1

\* messages.map(m => m.content).join("\n")
RECURSIVE JoinContents(_)
JoinContents(items) ==
    IF items = <<>> THEN <<>>
    ELSE IF Len(items) = 1 THEN ToStr(items[1].content)
    ELSE Concat(Concat(ToStr(Head(items).content), Blank(1)), JoinContents(Tail(items)))

PromptEmpty(prompt) == prompt = <<>> \/ StrLen(Trim(prompt)) = 0

\* initializeClients: the client variables after the call
InitializedClients(v, e, cur, done) ==
    LET KeyUsable(key) ==
            IF v = "main" THEN key = "present"       \* KEY && KEY.trim().length > 0
            ELSE key # "absent"                      \* KEY
    IN  IF v = "main" /\ done THEN cur
        ELSE [p \in {"gemini", "groq", "openai"} |-> cur[p] \/ KeyUsable(e[p])]

\* Math.min(maxTokens, 2000)
MinTokens(mt) ==
    IF mt.t = "number" THEN JNum(IF mt.n < TokenCeiling THEN mt.n ELSE TokenCeiling)
    ELSE JNaN

\* the max_tokens a provider call carries; Gemini and Ollama get none
BudgetFor(provider, mt) ==
    IF provider \in {"groq", "openai"} THEN MinTokens(mt)
    ELSE [t |-> "none", s |-> <<>>, n |-> 0]

(***************************************************************************)
(* Router: what a provider call can come back with                         *)
(***************************************************************************)
\* thrown: the SDK call or fetch rejected; httpOk: r.ok (Ollama); body: the
\* response object is there (result.response, res, the parsed JSON);
\* choices: length of res.choices (Groq, OpenAI); content: the text field.
Reply(thrown, httpOk, body, choices, content) ==
    [thrown |-> thrown, httpOk |-> httpOk, body |-> body, choices |-> choices,
     content |-> content]

Replies(provider) ==
    {Reply(TRUE, TRUE, FALSE, 0, JUndef), Reply(FALSE, TRUE, FALSE, 0, JUndef)}
    \cup { Reply(FALSE, TRUE, TRUE, 1, c) :
              c \in { JStr(Txt(7)), JStr(<<>>), JStr(Blank(3)), JNum(42), JUndef } }
    \cup (IF provider \in {"groq", "openai"}
          THEN {Reply(FALSE, TRUE, TRUE, 0, JUndef)} ELSE {})
    \cup (IF provider = "ollama"
          THEN {Reply(FALSE, FALSE, FALSE, 0, JUndef)} ELSE {})

Succeeded(c) == [ok |-> TRUE, content |-> c, reason |-> NoError]
Failed(why) == [ok |-> FALSE, content |-> JUndef, reason |-> why]

\* mutant of validateResponse: the content of the first choice is not looked at
validateResponse_anyContent(r, provider) ==
    IF ~r.body THEN "Empty response from provider"
    ELSE IF r.choices > 0 THEN NoError
    ELSE "Invalid response structure from provider"

\* modelRouter.js validateResponse(response, provider): NoError when it returns true
validateResponse(r, provider) ==
    IF ~r.body THEN "Empty response from provider"
    ELSE IF /\ r.choices > 0
            /\ Truthy(r.content) /\ TypeofString(r.content)
            /\ StrLen(Trim(r.content.s)) > 0
         THEN NoError
    ELSE "Invalid response structure from provider"

\* modelRouter.js, the body of one loop iteration after the await
AttemptMain(provider, r) ==
    IF r.thrown THEN Failed("request failed")
    ELSE CASE provider = "gemini" ->
                IF ~r.body THEN Failed("Invalid response structure from Gemini")
                ELSE IF ~Truthy(r.content) THEN Failed("Empty response from Gemini")
                ELSE IF ~TypeofString(r.content) THEN Failed("text.trim is not a function")
                ELSE IF StrLen(Trim(r.content.s)) = 0 THEN Failed("Empty response from Gemini")
                ELSE Succeeded(r.content)
           [] provider \in {"groq", "openai"} ->
                IF validateResponse(r, provider) = NoError
                THEN Succeeded(r.content)
                ELSE Failed(validateResponse(r, provider))
           [] provider = "ollama" ->
                IF ~r.httpOk THEN Failed("HTTP status")
                ELSE IF ~r.body \/ ~Truthy(r.content) \/ ~TypeofString(r.content)
                     THEN Failed("Invalid response from Ollama")
                ELSE IF StrLen(Trim(r.content.s)) = 0 THEN Failed("Empty response from Ollama")
                ELSE Succeeded(r.content)

\* modelRouter_optimized.js callGemini / callGroq / callOpenAI / callOllama:
\* the response returned, or the Error thrown
CallProvider_optimized(provider, r) ==
    IF r.thrown THEN [threw |-> TRUE, why |-> "provider error: request failed", resp |-> r]
    ELSE CASE provider = "gemini" ->
                IF ~r.body
                THEN [threw |-> TRUE, why |-> "provider error: cannot read properties", resp |-> r]
                ELSE [threw |-> FALSE, why |-> NoError, resp |-> r]
           [] provider \in {"groq", "openai"} ->
                [threw |-> FALSE, why |-> NoError, resp |-> r]
           [] provider = "ollama" ->
                IF ~r.httpOk
                THEN [threw |-> TRUE, why |-> "provider error: HTTP status", resp |-> r]
                ELSE IF ~r.body
                THEN [threw |-> TRUE, why |-> "provider error: cannot read properties", resp |-> r]
                ELSE [threw |-> FALSE, why |-> NoError,
                      resp |-> [r EXCEPT !.content =
                                   IF Truthy(r.content) THEN r.content ELSE JStr(<<>>)]]

\* modelRouter_optimized.js validateResponse(response): "true", "false", or
\* "throws" when content has no trim method
validateResponse_optimized(r) ==
    IF ~r.body \/ r.choices = 0 \/ ~Truthy(r.content) THEN "false"
    ELSE IF ~TypeofString(r.content) THEN "throws"
    ELSE IF StrLen(Trim(r.content.s)) > 0 THEN "true"
    ELSE "false"

AttemptOptimized(provider, r) ==
    LET c == CallProvider_optimized(provider, r) IN
    IF c.threw THEN Failed(c.why)
    ELSE CASE validateResponse_optimized(c.resp) = "true" -> Succeeded(c.resp.content)
           [] validateResponse_optimized(c.resp) = "throws" ->
                Failed("content.trim is not a function")
           [] OTHER -> Failed("Invalid response structure")

Attempt(v, provider, r) ==
    IF v = "main" THEN AttemptMain(provider, r) ELSE AttemptOptimized(provider, r)

\* a string given by the lengths of its space-separated words
RECURSIVE Words(_)
Words(ls) ==
    IF ls = <<>> THEN <<>>
    ELSE IF Len(ls) = 1 THEN Txt(ls[1])
    ELSE Txt(ls[1]) \o Blank(1) \o Words(Tail(ls))

\* the placeholder of mock mode
MockContent(v) ==
    IF v = "main" THEN JStr(Words(<<4, 8, 16>>))
    ELSE JStr(Words(<<4, 8, 10, 6, 4, 3, 2, 7, 15, 3, 9, 5, 3, 5>>))

(***************************************************************************)
(* Router: callModel up to its first await                                 *)
(***************************************************************************)
\* The checks of callModel's synchronous prefix, in the order of the code:
\* kind is "inputError", "typeError" or "pass"; initialized tells whether
\* initializeClients() was reached.
Checks(v, msgs, mt) ==
    LET prompt == JoinContents(msgs.items) IN
    IF v = "main" THEN
        IF validateMessages(msgs) # NoError
        THEN [kind |-> "inputError", message |-> validateMessages(msgs), initialized |-> FALSE]
        ELSE IF MaxTokensRejected(mt)
        THEN [kind |-> "inputError", message |-> "maxTokens must be a positive number",
              initialized |-> FALSE]
        ELSE IF PromptEmpty(prompt)
        THEN [kind |-> "inputError", message |-> "Empty prompt generated from messages",
              initialized |-> TRUE]
        ELSE [kind |-> "pass", message |-> NoError, initialized |-> TRUE]
    ELSE
        IF msgs.t # "array" \/ Len(msgs.items) = 0
        THEN [kind |-> "inputError",
              message |-> "Invalid messages array: must be non-empty array",
              initialized |-> FALSE]
        ELSE IF \E i \in 1..Len(msgs.items) : msgs.items[i].t = "null"
             \* reading .content of null throws
        THEN [kind |-> "typeError", message |-> "Cannot read properties of null",
              initialized |-> TRUE]
        ELSE IF PromptEmpty(prompt)
        THEN [kind |-> "inputError", message |-> "Empty prompt: no content in messages",
              initialized |-> TRUE]
        ELSE [kind |-> "pass", message |-> NoError, initialized |-> TRUE]

\* mutant of Entry: the mock flag is not consulted
Entry_mockIgnored(v, msgs, mt, mock) ==
    LET c == Checks(v, msgs, mt) IN
    IF c.kind # "pass" THEN c ELSE [c EXCEPT !.kind = "loop"]

\* What the synchronous prefix of callModel decides: the failed check, "mock"
\* (the placeholder is returned) or "loop" (the fallback loop is entered).
Entry(v, msgs, mt, mock) ==
    LET c == Checks(v, msgs, mt) IN
    IF c.kind # "pass" THEN c
    ELSE IF mock THEN [c EXCEPT !.kind = "mock"]
    ELSE [c EXCEPT !.kind = "loop"]

NoOutcome ==
    [kind |-> "none", attempt |-> 0, content |-> JUndef, message |-> NoError,
     reasons |-> <<>>]
Threw(kind, message, reasons) ==
    [kind |-> kind, attempt |-> 0, content |-> JUndef, message |-> message,
     reasons |-> reasons]
Returned(kind, attempt, content) ==
    [kind |-> kind, attempt |-> attempt, content |-> content, message |-> NoError,
     reasons |-> <<>>]

\* mutant of ClientOf: the "&& client" half of the branch conditions is lost
ClientOf_unchecked(provider) == TRUE

ClientOf(provider) ==
    CASE provider = "gemini" -> gemini
      [] provider = "groq" -> groq
      [] provider = "openai" -> openai
      [] OTHER -> TRUE          \* ollama needs no client

(***************************************************************************)
(* Router: actions                                                         *)
(***************************************************************************)
RouterInit ==
    /\ variant \in {"main", "optimized"}
    \* a key is unset or "", whitespace only, or a key
    /\ env \in [{"gemini", "groq", "openai"} -> {"absent", "blank", "present"}]
    /\ mockMode \in BOOLEAN
    /\ gemini = FALSE /\ groq = FALSE /\ openai = FALSE
    /\ clientsInitialized = FALSE
    /\ pc = "idle"
    /\ modelName = NoModel
    /\ messages = NotAnArray
    /\ maxTokens = JUndef
    /\ idx = 1
    /\ inflight = {}
    /\ calls = <<>>
    /\ failedAttempts = <<>>
    /\ trace = <<>>
    /\ outcome = NoOutcome

\* the router is not part of the run
RouterQuiet ==
    /\ variant = "main"
    /\ env = [p \in {"gemini", "groq", "openai"} |-> "absent"]
    /\ mockMode = FALSE
    /\ gemini = FALSE /\ groq = FALSE /\ openai = FALSE
    /\ clientsInitialized = FALSE
    /\ pc = "off"
    /\ modelName = NoModel
    /\ messages = NotAnArray
    /\ maxTokens = JUndef
    /\ idx = 1
    /\ inflight = {}
    /\ calls = <<>>
    /\ failedAttempts = <<>>
    /\ trace = <<>>
    /\ outcome = NoOutcome

\* callModel(modelName, msgs, mt) from its entry to the first await or to its
\* return/throw before the loop
CallModel(name, msgs, mt) ==
    LET eff == EffectiveMaxTokens(mt)
        e == Entry(variant, msgs, eff, mockMode)
        cur == [p \in {"gemini", "groq", "openai"} |->
                  CASE p = "gemini" -> gemini [] p = "groq" -> groq [] OTHER -> openai]
        new == IF e.initialized
               THEN InitializedClients(variant, env, cur, clientsInitialized)
               ELSE cur
    IN  /\ pc = "idle"
        /\ modelName' = name
        /\ messages' = msgs
        /\ maxTokens' = eff
        /\ gemini' = new["gemini"] /\ groq' = new["groq"] /\ openai' = new["openai"]
        /\ clientsInitialized' = (clientsInitialized \/ (variant = "main" /\ e.initialized))
        /\ idx' = 1
        /\ inflight' = {} /\ calls' = <<>> /\ failedAttempts' = <<>> /\ trace' = <<>>
        /\ CASE e.kind = "loop" -> pc' = "loop" /\ outcome' = NoOutcome
             [] e.kind = "mock" ->
                    pc' = "done" /\ outcome' = Returned("mock", 0, MockContent(variant))
             [] OTHER -> pc' = "done" /\ outcome' = Threw(e.kind, e.message, <<>>)
        /\ UNCHANGED notRouter
    /\ UNCHANGED <<variant, env, mockMode>>

\* initializeClients() run on behalf of someone else while this invocation is
\* idle, awaits or has ended: getAvailableProviders() (modelRouter.js), or the
\* synchronous prefix of another request's callModel
InitializeClients ==
    LET cur == [p \in {"gemini", "groq", "openai"} |->
                  CASE p = "gemini" -> gemini [] p = "groq" -> groq [] OTHER -> openai]
        new == InitializedClients(variant, env, cur, clientsInitialized)
    IN  /\ pc \in {"idle", "await", "done"}
        /\ gemini' = new["gemini"] /\ groq' = new["groq"] /\ openai' = new["openai"]
        /\ clientsInitialized' = (clientsInitialized \/ variant = "main")
        /\ UNCHANGED notRouter
        /\ UNCHANGED <<variant, env, mockMode, pc, modelName, messages, maxTokens, idx, inflight,
                       calls, failedAttempts, trace, outcome>>

\* an iteration whose provider has no client: no branch is taken
Skip ==
    /\ pc = "loop" /\ idx <= NumAttempts
    /\ ~ClientOf(FALLBACK_MODELS[idx].provider)
    /\ idx' = idx + 1
    /\ UNCHANGED notRouter
    /\ UNCHANGED <<variant, env, mockMode, gemini, groq, openai, clientsInitialized,
                   pc, modelName, messages, maxTokens, inflight, calls, failedAttempts, trace,
                   outcome>>

\* mutant of Invoke: the call is issued and not awaited
Invoke_noAwait ==
    /\ pc = "loop" /\ idx <= NumAttempts
    /\ ClientOf(FALLBACK_MODELS[idx].provider)
    /\ calls' = Append(calls, [attempt |-> idx,
                               provider |-> FALLBACK_MODELS[idx].provider,
                               model |-> FALLBACK_MODELS[idx].model,
                               budget |-> BudgetFor(FALLBACK_MODELS[idx].provider, maxTokens)])
    /\ inflight' = inflight \cup {idx}
    /\ idx' = idx + 1
    /\ UNCHANGED notRouter
    /\ UNCHANGED <<variant, env, mockMode, gemini, groq, openai, clientsInitialized,
                   pc, modelName, messages, maxTokens, failedAttempts, trace, outcome>>

\* an iteration whose provider has a client: the call is issued and awaited
\* mutant of Invoke: the provider is asked for the model the caller named
Invoke_hinted ==
    /\ pc = "loop" /\ idx <= NumAttempts
    /\ ClientOf(FALLBACK_MODELS[idx].provider)
    /\ calls' = Append(calls, [attempt |-> idx,
                               provider |-> FALLBACK_MODELS[idx].provider,
                               model |-> modelName,
                               budget |-> BudgetFor(FALLBACK_MODELS[idx].provider, maxTokens)])
    /\ inflight' = inflight \cup {idx}
    /\ pc' = "await"
    /\ UNCHANGED notRouter
    /\ UNCHANGED <<variant, env, mockMode, gemini, groq, openai, clientsInitialized,
                   modelName, messages, maxTokens, idx, failedAttempts, trace, outcome>>

Invoke ==
    /\ pc = "loop" /\ idx <= NumAttempts
    /\ ClientOf(FALLBACK_MODELS[idx].provider)
    /\ calls' = Append(calls, [attempt |-> idx,
                               provider |-> FALLBACK_MODELS[idx].provider,
                               model |-> FALLBACK_MODELS[idx].model,
                               budget |-> BudgetFor(FALLBACK_MODELS[idx].provider, maxTokens)])
    /\ inflight' = inflight \cup {idx}
    /\ pc' = "await"
    /\ UNCHANGED notRouter
    /\ UNCHANGED <<variant, env, mockMode, gemini, groq, openai, clientsInitialized,
                   modelName, messages, maxTokens, idx, failedAttempts, trace, outcome>>

\* mutant of Resolve: the first failed attempt ends the invocation
Resolve_fatal(r) ==
    LET a == FALLBACK_MODELS[idx]
        res == Attempt(variant, a.provider, r)
    IN  /\ pc = "await"
        /\ r \in Replies(a.provider)
        /\ inflight' = inflight \ {idx}
        /\ trace' = Append(trace, [attempt |-> idx, ok |-> res.ok])
        /\ outcome' = IF res.ok THEN Returned("success", idx, res.content)
                      ELSE Threw("allFailed", res.reason, <<>>)
        /\ pc' = "done"
        /\ UNCHANGED <<idx, failedAttempts>>
        /\ UNCHANGED notRouter
    /\ UNCHANGED <<variant, env, mockMode, gemini, groq, openai, clientsInitialized,
                       modelName, messages, maxTokens, calls>>

\* mutant of Resolve: a validated response does not end the loop
Resolve_noReturn(r) ==
    LET a == FALLBACK_MODELS[idx]
        res == Attempt(variant, a.provider, r)
    IN  /\ pc = "await"
        /\ r \in Replies(a.provider)
        /\ inflight' = inflight \ {idx}
        /\ trace' = Append(trace, [attempt |-> idx, ok |-> res.ok])
        /\ outcome' = IF res.ok THEN Returned("success", idx, res.content) ELSE outcome
        /\ failedAttempts' =
               IF variant = "optimized" /\ ~res.ok
               THEN Append(failedAttempts,
                           [provider |-> a.provider, model |-> a.model,
                            reason |-> res.reason])
               ELSE failedAttempts
        /\ idx' = idx + 1
        /\ pc' = "loop"
        /\ UNCHANGED notRouter
    /\ UNCHANGED <<variant, env, mockMode, gemini, groq, openai, clientsInitialized,
                       modelName, messages, maxTokens, calls>>

\* mutant of Resolve: a failed attempt is tried again
Resolve_retry(r) ==
    LET a == FALLBACK_MODELS[idx]
        res == Attempt(variant, a.provider, r)
    IN  /\ pc = "await"
        /\ r \in Replies(a.provider)
        /\ inflight' = inflight \ {idx}
        /\ trace' = Append(trace, [attempt |-> idx, ok |-> res.ok])
        /\ IF res.ok
           THEN /\ outcome' = Returned("success", idx, res.content)
                /\ pc' = "done"
                /\ UNCHANGED <<idx, failedAttempts>>
           ELSE /\ failedAttempts' =
                       IF variant = "optimized"
                       THEN Append(failedAttempts,
                                   [provider |-> a.provider, model |-> a.model,
                                    reason |-> res.reason])
                       ELSE failedAttempts
                /\ idx' = IF Len(trace) = 0 THEN idx ELSE idx + 1
                /\ pc' = "loop"
                /\ UNCHANGED outcome
        /\ UNCHANGED notRouter
    /\ UNCHANGED <<variant, env, mockMode, gemini, groq, openai, clientsInitialized,
                       modelName, messages, maxTokens, calls>>

\* the awaited call settles with reply r: return it, or catch and continue
Resolve(r) ==
    LET a == FALLBACK_MODELS[idx]
        res == Attempt(variant, a.provider, r)
    IN  /\ pc = "await"
        /\ r \in Replies(a.provider)
        /\ inflight' = inflight \ {idx}
        /\ trace' = Append(trace, [attempt |-> idx, ok |-> res.ok])
        /\ IF res.ok
           THEN /\ outcome' = Returned("success", idx, res.content)
                /\ pc' = "done"
                /\ UNCHANGED <<idx, failedAttempts>>
           ELSE /\ failedAttempts' =
                       IF variant = "optimized"
                       THEN Append(failedAttempts,
                                   [provider |-> a.provider, model |-> a.model,
                                    reason |-> res.reason])
                       ELSE failedAttempts
                /\ idx' = idx + 1
                /\ pc' = "loop"
                /\ UNCHANGED outcome
        /\ UNCHANGED notRouter
    /\ UNCHANGED <<variant, env, mockMode, gemini, groq, openai, clientsInitialized,
                       modelName, messages, maxTokens, calls>>

\* mutant of Exhausted: the throw after the loop is missing, the function
\* falls off its end
Exhausted_silent ==
    /\ pc = "loop" /\ idx > NumAttempts
    /\ outcome' = Returned("undefined", 0, JUndef)
    /\ pc' = "done"
    /\ UNCHANGED notRouter
    /\ UNCHANGED <<variant, env, mockMode, gemini, groq, openai, clientsInitialized,
                   modelName, messages, maxTokens, idx, inflight, calls, failedAttempts, trace>>

\* the loop ran off the end of FALLBACK_MODELS
Exhausted ==
    /\ pc = "loop" /\ idx > NumAttempts
    /\ outcome' = IF variant = "main"
                  THEN Threw("allFailed",
                             "All AI providers failed - no response generated. Check API keys and connectivity.",
                             <<>>)
                  ELSE Threw("allFailed", "All AI providers failed. Attempted:",
                             failedAttempts)
    /\ pc' = "done"
    /\ UNCHANGED notRouter
    /\ UNCHANGED <<variant, env, mockMode, gemini, groq, openai, clientsInitialized,
                   modelName, messages, maxTokens, idx, inflight, calls, failedAttempts, trace>>

\* the caller has its answer; the process is ready for the next request
Finish ==
    /\ pc = "done"
    /\ pc' = "idle"
    /\ modelName' = NoModel /\ messages' = NotAnArray /\ maxTokens' = JUndef
    /\ idx' = 1 /\ inflight' = {} /\ calls' = <<>> /\ failedAttempts' = <<>>
    /\ trace' = <<>> /\ outcome' = NoOutcome
    /\ UNCHANGED notRouter
    /\ UNCHANGED <<variant, env, mockMode, gemini, groq, openai, clientsInitialized>>

\* every request shape, providers that either reject or answer well
RouterNext ==
    \/ \E name \in ModelNames(variant), msgs \in MessageArgs, mt \in MaxTokensArgs :
          CallModel(name, msgs, mt)
    \/ InitializeClients
    \/ Skip
    \/ Invoke
    \/ \E r \in { Reply(TRUE, TRUE, FALSE, 0, JUndef),
                   Reply(FALSE, TRUE, TRUE, 1, JStr(Txt(7))) } : Resolve(r)
    \/ Exhausted
    \/ Finish

\* well-formed requests, every way a provider call can end
FallbackNext ==
    \/ \E name \in ModelNames(variant), a \in PlainArgs : CallModel(name, a[1], a[2])
    \/ InitializeClients
    \/ Skip
    \/ Invoke
    \/ \E r \in UNION { Replies(p) : p \in {"gemini", "groq", "openai", "ollama"} } :
          Resolve(r)
    \/ Exhausted
    \/ Finish

(***************************************************************************)
(* Sanitizer: validateReview                                               *)
(***************************************************************************)
SummaryCap == 3000      \* data.summary.trim().substring(0, 3000)
CommentCap == 100       \* .slice(0, 100)
PatchCap == 30          \* .slice(0, 30)
TestCaseCap == 20       \* .slice(0, 20)
TestCaseLen == 500      \* tc.substring(0, 500)
MaxShort == 2           \* arrays up to this length are tried with every entry shape

\* An entry of comments, patches or testCases. t is the JavaScript type
\* ("array" is an array entry); file, comment, diff are the properties of an
\* object entry, line tells entries apart, s is the text of a string entry.
Item(t, file, comment, diff, line, s) ==
    [t |-> t, file |-> file, comment |-> comment, diff |-> diff, line |-> line, s |-> s]
CommentItem(file, comment, line) == Item("object", file, comment, JUndef, line, <<>>)
PatchItem(file, diff, line) == Item("object", file, JUndef, diff, line, <<>>)
StringItem(s) == Item("string", JUndef, JUndef, JUndef, 0, s)
OtherItem(t) == Item(t, JUndef, JUndef, JUndef, 0, <<>>)

\* A property of the decoded object: t is its type, s its text when it is a
\* string, items its entries when it is an array.
Field(t, s, items) == [t |-> t, s |-> s, items |-> items]
Missing == Field("undefined", <<>>, <<>>)
StrField(s) == Field("string", s, <<>>)
ArrField(items) == Field("array", <<>>, items)

\* The decoded value: t is its type, the rest its properties (all Missing
\* unless it is an object).
Data(t, summary, comments, patches, testCases) ==
    [t |-> t, summary |-> summary, comments |-> comments, patches |-> patches,
     testCases |-> testCases]
Plain(t) == Data(t, Missing, Missing, Missing, Missing)

FileA == JStr(Txt(4))                               \* "a.js"
TextOk == JStr(Txt(2))                              \* "ok"

\* the example of the specification's section 8
ExampleComments ==
    << CommentItem(FileA, TextOk, 1), CommentItem(JStr(<<>>), TextOk, 2),
       CommentItem(JStr(Txt(4)), JStr(<<>>), 3), StringItem(Txt(13)) >>

\* What JSON.parse can hand to validateReview: every non-object, and objects
\* in which one property takes each value of its list while the others are
\* all absent or all present.
SanitizerInputs ==
    LET FilePadded == JStr(Blank(1) \o Txt(4) \o Blank(1))  \* " b.js "
        CommentShapes ==
            { CommentItem(FileA, TextOk, 1),
              CommentItem(FilePadded, JStr(Txt(2) \o Blank(1) \o Txt(3)), 2),
              CommentItem(JStr(<<>>), TextOk, 3),
              CommentItem(FileA, JStr(<<>>), 4),
              CommentItem(JStr(Blank(2)), TextOk, 5),
              CommentItem(FileA, JStr(Blank(1)), 6),
              CommentItem(JNum(7), TextOk, 7),
              CommentItem(FileA, JUndef, 8),
              CommentItem(JUndef, JUndef, 9),
              StringItem(Txt(13)),
              OtherItem("null"), OtherItem("number"), OtherItem("array") }
        PatchShapes ==
            { PatchItem(FileA, TextOk, 1),
              PatchItem(FilePadded, JStr(Txt(3) \o Blank(1) \o Txt(3)), 2),
              PatchItem(JStr(<<>>), TextOk, 3),
              PatchItem(FileA, JStr(Blank(2)), 4),
              PatchItem(FileA, [t |-> "null", s |-> <<>>, n |-> 0], 5),
              PatchItem(JNum(7), TextOk, 6),
              CommentItem(FileA, TextOk, 7),
              StringItem(Txt(13)),
              OtherItem("null") }
        TestCaseShapes ==
            { StringItem(Txt(9)), StringItem(<<>>), StringItem(Blank(3)),
              StringItem(Txt(TestCaseLen)), StringItem(Txt(TestCaseLen + 1)),
              StringItem(Blank(TestCaseLen) \o Txt(4)),
              StringItem(Blank(1) \o Txt(4) \o Blank(1)),
              OtherItem("number"), OtherItem("null"), CommentItem(FileA, TextOk, 1) }
        \* every array of at most MaxShort entries from S
        Short(S) == UNION { [1..k -> S] : k \in 0..MaxShort }
        \* an array of n entries, numbered by line, where every period-th
        \* entry is replaced by bad (period 0: none is)
        Long(good, bad, n, period) ==
            [i \in 1..n |-> IF period > 0 /\ i % period = 0 THEN bad
                            ELSE [good EXCEPT !.line = i]]
        \* arrays around a cap: one short of it, at it, beyond it, and beyond
        \* it with every third entry bad
        Around(good, bad, worse, cap) ==
            { Long(good, bad, n, 0) : n \in {cap - 1, cap, cap + 1} }
            \cup { Long(good, worse, n, 3) :
                     n \in {cap + 1, (3 * cap) \div 2, (3 * cap) \div 2 + 4} }
        NonArrays == { Missing, Field("null", <<>>, <<>>), Field("number", <<>>, <<>>),
                       StrField(Txt(4)), Field("object", <<>>, <<>>) }
        SummaryFields ==
            { Missing, Field("null", <<>>, <<>>), Field("number", <<>>, <<>>),
              ArrField(<<>>),
              StrField(<<>>), StrField(Txt(12)), StrField(Blank(3)),
              StrField(Blank(2) \o Txt(SummaryCap) \o Blank(1)),
              StrField(Txt(SummaryCap + 1)),
              StrField(Txt(5000)),
              StrField(Blank(2500) \o Txt(2500)),
              StrField(Txt(2999) \o Blank(2001)),
              StrField(Blank(5000)),
              StrField(Txt(SummaryCap - 1) \o Blank(2) \o Txt(5)) }
        CommentFields ==
            NonArrays \cup { ArrField(a) : a \in Short(CommentShapes) }
            \cup { ArrField(a) :
                     a \in Around(CommentItem(FileA, TextOk, 0), StringItem(Txt(13)),
                                  CommentItem(FileA, JStr(<<>>), 0), CommentCap) }
            \cup { ArrField(ExampleComments) }
        PatchFields ==
            NonArrays \cup { ArrField(a) : a \in Short(PatchShapes) }
            \cup { ArrField(a) :
                     a \in Around(PatchItem(FileA, TextOk, 0), OtherItem("null"),
                                  PatchItem(JStr(<<>>), TextOk, 0), PatchCap) }
        TestCaseFields ==
            NonArrays \cup { ArrField(a) : a \in Short(TestCaseShapes) }
            \cup { ArrField(a) :
                     a \in { Long(StringItem(Txt(9)), OtherItem("null"), n, 0) :
                               n \in {TestCaseCap - 1, TestCaseCap, TestCaseCap + 1} }
                          \cup { Long(StringItem(Txt(TestCaseLen + 7)), StringItem(<<>>), n, 3) :
                                   n \in {TestCaseCap + 1, (3 * TestCaseCap) \div 2,
                                          (3 * TestCaseCap) \div 2 + 4} } }
        Absent == <<Missing, Missing, Missing, Missing>>
        Present == << StrField(Txt(12)), ArrField(<<CommentItem(FileA, TextOk, 1)>>),
                      ArrField(<<PatchItem(FileA, TextOk, 1), OtherItem("null")>>),
                      ArrField(<<StringItem(Txt(9))>>) >>
        Varying(i, F) == { [b EXCEPT ![i] = f] : b \in {Absent, Present}, f \in F }
    IN  { Plain("null"), Plain("number"), Plain("zero"), Plain("string"),
          Plain("emptyString"), Plain("boolean"), Plain("array"), Plain("object") }
        \cup { Data("object", p[1], p[2], p[3], p[4]) :
                 p \in Varying(1, SummaryFields) \cup Varying(2, CommentFields)
                       \cup Varying(3, PatchFields) \cup Varying(4, TestCaseFields) }

\* mutant of Slice: the cap is not applied
Slice_none(a, n) == a

\* Array.prototype.slice(0, n)
Slice(a, n) == SubSeq(a, 1, IF Len(a) < n THEN Len(a) ELSE n)

\* c && typeof c === "object": null is no object here, an array is
IsObjectItem(c) == c.t \in {"object", "array"}

\* typeof v === "string" && v.trim().length > 0
NonBlankString(v) == v.t = "string" /\ StrLen(Trim(v.s)) > 0

\* mutant of KeepComment: the strings are not trimmed before the length test
KeepComment_untrimmed(c) ==
    /\ IsObjectItem(c)
    /\ c.file.t = "string" /\ StrLen(c.file.s) > 0
    /\ c.comment.t = "string" /\ StrLen(c.comment.s) > 0

KeepComment(c) == IsObjectItem(c) /\ NonBlankString(c.file) /\ NonBlankString(c.comment)
\* mutant of KeepPatch: the diff is not looked at
KeepPatch_fileOnly(p) == IsObjectItem(p) /\ NonBlankString(p.file)

KeepPatch(p) == IsObjectItem(p) /\ NonBlankString(p.file) /\ NonBlankString(p.diff)
\* mutant of KeepTestCase: every string is kept
KeepTestCase_anyString(tc) == tc.t = "string"

KeepTestCase(tc) == tc.t = "string" /\ StrLen(Trim(tc.s)) > 0

\* .map(tc => tc.substring(0, 500))
CutTestCases(a) == [i \in 1..Len(a) |-> [a[i] EXCEPT !.s = Substring(a[i].s, TestCaseLen)]]

\* mutant of createDefaultReview: the default document claims to be validated
createDefaultReview_validated ==
    [summary |-> Words(<<9, 4, 6, 10, 6, 6, 3, 9>>), comments |-> <<>>, patches |-> <<>>,
     testCases |-> <<>>, status |-> "validated"]

createDefaultReview ==
    \* "Automated code review completed. Please review for accuracy."
    [summary |-> Words(<<9, 4, 6, 10, 6, 6, 3, 9>>), comments |-> <<>>, patches |-> <<>>,
     testCases |-> <<>>, status |-> "default"]

validateReview(d) ==
    IF d.t \notin {"object", "array"}       \* !data || typeof data !== "object"
    THEN createDefaultReview
    ELSE [summary |-> IF d.summary.t = "string"
                      THEN Substring(Trim(d.summary.s), SummaryCap)
                      ELSE Words(<<4, 6, 10>>),    \* "Code review completed."
          comments |-> IF d.comments.t = "array"
                       THEN Slice(SelectSeq(d.comments.items, KeepComment), CommentCap)
                       ELSE <<>>,
          patches |-> IF d.patches.t = "array"
                      THEN Slice(SelectSeq(d.patches.items, KeepPatch), PatchCap)
                      ELSE <<>>,
          testCases |-> IF d.testCases.t = "array"
                        THEN Slice(CutTestCases(SelectSeq(d.testCases.items, KeepTestCase)),
                                   TestCaseCap)
                        ELSE <<>>,
          status |-> "validated"]

SanitizerQuiet ==
    /\ data = Plain("null")
    /\ review = createDefaultReview
    /\ spc = "off"

SanitizerInit ==
    /\ data \in SanitizerInputs
    /\ review = createDefaultReview
    /\ spc = "ready"

\* validateReview(data) is called and returns
ValidateReview ==
    /\ spc = "ready"
    /\ review' = validateReview(data)
    /\ spc' = "done"
    /\ UNCHANGED <<data, routerVars, decoderVars, handlerVars, otherVars>>

(***************************************************************************)
(* Decoder: extractJSON                                                    *)
(*                                                                         *)
(* A text is a sequence of one-character strings.  The texts of the model  *)
(* are written over the characters of Alphabet; they have no "-", ".",     *)
(* no "e" or "E" right after a digit and no backslash before "b" or "u",   *)
(* so the number and escape forms JSON.parse knows beyond the ones below   *)
(* do not occur.                                                           *)
(***************************************************************************)
Q == "\""
BS == "\\"
NL == "\n"
SP == " "
BT == "^"        \* stands for the backtick, which a TLA+ string cannot hold

Fence == <<BT, BT, BT>>
\* the words the code and the JSON grammar look for
Word ==
    [ json |-> <<"j", "s", "o", "n">>,
      null |-> <<"n", "u", "l", "l">>,
      true |-> <<"t", "r", "u", "e">>,
      false |-> <<"f", "a", "l", "s", "e">>,
      summary |-> <<"s", "u", "m", "m", "a", "r", "y">>,
      comments |-> <<"c", "o", "m", "m", "e", "n", "t", "s">>,
      patches |-> <<"p", "a", "t", "c", "h", "e", "s">>,
      testCases |-> <<"t", "e", "s", "t", "C", "a", "s", "e", "s">> ]
DigitChars == <<"0", "1", "2", "3", "4", "5", "6", "7", "8", "9">>

\* whitespace of the JSON grammar; of \s in a regular expression and of trim()
JsonWs == {SP, NL, "\t", "\r"}
RegexWs == JsonWs \cup {"\f"}

MinOf(S) == CHOOSE x \in S : \A y \in S : x <= y
MaxOf(S) == CHOOSE x \in S : \A y \in S : x >= y

\* t[i], or "" past the end
At(t, i) == IF i \in 1..Len(t) THEN t[i] ELSE ""

\* does w occur in t at position i
StartsWith(t, i, w) ==
    /\ i >= 1 /\ i + Len(w) - 1 <= Len(t)
    /\ \A k \in 1..Len(w) : t[i + k - 1] = w[k]

\* the first position >= from where w occurs in t, 0 if there is none
IndexOf(t, from, w) ==
    LET S == { q \in from..Len(t) : StartsWith(t, q, w) }
    IN  IF S = {} THEN 0 ELSE MinOf(S)

\* the first position >= i of t that holds no character of W
RECURSIVE SkipOver(_, _, _)
SkipOver(W, t, i) == IF At(t, i) \in W THEN SkipOver(W, t, i + 1) ELSE i

\* String.prototype.trim on a text
TrimText(t) ==
    LET S == { i \in 1..Len(t) : t[i] \notin RegexWs }
    IN  IF S = {} THEN <<>> ELSE SubSeq(t, MinOf(S), MaxOf(S))

(***************************************************************************)
(* JSON values.  An array keeps its elements, an object its members, in    *)
(* items; an element is a member with the empty key.  The keys of the      *)
(* model are not integer-like, so an object keeps its members in the order *)
(* of their first insertion.                                               *)
(***************************************************************************)
Value(k, n, s, items) == [k |-> k, n |-> n, s |-> s, items |-> items]
VNull == Value("null", 0, <<>>, <<>>)
VBool(b) == Value(IF b THEN "true" ELSE "false", 0, <<>>, <<>>)
VNum(n) == Value("number", n, <<>>, <<>>)
VStr(s) == Value("string", 0, s, <<>>)
Member(key, val) == [key |-> key, val |-> val]
VObj(members) == Value("object", 0, <<>>, members)

VArr(vs) == Value("array", 0, <<>>, [i \in 1..Len(vs) |-> Member(<<>>, vs[i])])

\* obj[key] = val while parsing: a repeated key keeps its place and takes the
\* last value
Put(members, key, val) ==
    IF \E i \in 1..Len(members) : members[i].key = key
    THEN LET i == CHOOSE j \in 1..Len(members) : members[j].key = key
         IN  [members EXCEPT ![i] = Member(key, val)]
    ELSE Append(members, Member(key, val))

(***************************************************************************)
(* JSON.stringify                                                          *)
(***************************************************************************)
RECURSIVE Digits(_)
Digits(n) == IF n < 10 THEN <<DigitChars[n + 1]>>
             ELSE Digits(n \div 10) \o <<DigitChars[(n % 10) + 1]>>

RECURSIVE EscapeChars(_)
EscapeChars(s) ==
    IF s = <<>> THEN <<>>
    ELSE (CASE Head(s) = Q -> <<BS, Q>>
            [] Head(s) = BS -> <<BS, BS>>
            [] Head(s) = NL -> <<BS, "n">>
            [] Head(s) = "\t" -> <<BS, "t">>
            [] Head(s) = "\r" -> <<BS, "r">>
            [] Head(s) = "\f" -> <<BS, "f">>
            [] OTHER -> <<Head(s)>>) \o EscapeChars(Tail(s))

Quote(s) == <<Q>> \o EscapeChars(s) \o <<Q>>

RECURSIVE Stringify(_), StringifyItems(_, _)
Stringify(v) ==
    CASE v.k = "null" -> Word.null
      [] v.k = "true" -> Word.true
      [] v.k = "false" -> Word.false
      [] v.k = "number" -> Digits(v.n)
      [] v.k = "string" -> Quote(v.s)
      [] v.k = "array" -> <<"[">> \o StringifyItems(v.items, FALSE) \o <<"]">>
      [] v.k = "object" -> <<"{">> \o StringifyItems(v.items, TRUE) \o <<"}">>
StringifyItems(items, keyed) ==
    IF items = <<>> THEN <<>>
    ELSE (IF keyed THEN Quote(Head(items).key) \o <<":">> ELSE <<>>)
         \o Stringify(Head(items).val)
         \o (IF Tail(items) = <<>> THEN <<>> ELSE <<",">>)
         \o StringifyItems(Tail(items), keyed)

(***************************************************************************)
(* JSON.parse                                                              *)
(***************************************************************************)
SyntaxError == [ok |-> FALSE, val |-> VNull, pos |-> 0]
Parsed(v, p) == [ok |-> TRUE, val |-> v, pos |-> p]

\* the value of a digit, -1 for any other character
DigitVal(c) ==
    IF \E d \in 1..10 : DigitChars[d] = c
    THEN (CHOOSE d \in 1..10 : DigitChars[d] = c) - 1
    ELSE -1

RECURSIVE ParseDigits(_, _, _)
ParseDigits(t, i, n) ==
    IF DigitVal(At(t, i)) >= 0 THEN ParseDigits(t, i + 1, 10 * n + DigitVal(t[i]))
    ELSE Parsed(VNum(n), i)

\* the character an escape stands for, "" if it is no escape
Unescape(c) ==
    CASE c = Q -> Q
      [] c = BS -> BS
      [] c = "/" -> "/"
      [] c = "n" -> NL
      [] c = "t" -> "\t"
      [] c = "r" -> "\r"
      [] c = "f" -> "\f"
      [] OTHER -> ""

\* the rest of a string literal whose opening quote is before position i
RECURSIVE ParseChars(_, _, _)
ParseChars(t, i, acc) ==
    IF i > Len(t) THEN SyntaxError
    ELSE IF t[i] = Q THEN Parsed(VStr(acc), i + 1)
    ELSE IF t[i] = BS
         THEN IF Unescape(At(t, i + 1)) = "" THEN SyntaxError
              ELSE ParseChars(t, i + 2, Append(acc, Unescape(t[i + 1])))
    ELSE IF t[i] \in {NL, "\t", "\r", "\f"} THEN SyntaxError
    ELSE ParseChars(t, i + 1, Append(acc, t[i]))

ParseWord(t, i, w, v) == IF StartsWith(t, i, w) THEN Parsed(v, i + Len(w)) ELSE SyntaxError

\* a value that starts at position i; members and elements start at their
\* first character as well
RECURSIVE ParseValue(_, _), ParseMembers(_, _, _), ParseElements(_, _, _)
ParseValue(t, i) ==
    LET c == At(t, i)
    IN  CASE c = "{" ->
                LET j == SkipOver(JsonWs, t, i + 1)
                IN  IF At(t, j) = "}" THEN Parsed(VObj(<<>>), j + 1)
                    ELSE ParseMembers(t, j, <<>>)
          [] c = "[" ->
                LET j == SkipOver(JsonWs, t, i + 1)
                IN  IF At(t, j) = "]" THEN Parsed(VArr(<<>>), j + 1)
                    ELSE ParseElements(t, j, <<>>)
          [] c = Q -> ParseChars(t, i + 1, <<>>)
          \* int of the grammar: 0, or a digit 1-9 followed by digits
          [] c = "0" -> Parsed(VNum(0), i + 1)
          [] DigitVal(c) > 0 -> ParseDigits(t, i, 0)
          [] c = "n" -> ParseWord(t, i, Word.null, VNull)
          [] c = "t" -> ParseWord(t, i, Word.true, VBool(TRUE))
          [] c = "f" -> ParseWord(t, i, Word.false, VBool(FALSE))
          [] OTHER -> SyntaxError
ParseMembers(t, i, acc) ==
    IF At(t, i) # Q THEN SyntaxError
    ELSE LET key == ParseChars(t, i + 1, <<>>)
         IN  IF ~key.ok THEN SyntaxError
             ELSE LET colon == SkipOver(JsonWs, t, key.pos)
                  IN  IF At(t, colon) # ":" THEN SyntaxError
                      ELSE LET v == ParseValue(t, SkipOver(JsonWs, t, colon + 1))
                           IN  IF ~v.ok THEN SyntaxError
                               ELSE LET next == SkipOver(JsonWs, t, v.pos)
                                        members == Put(acc, key.val.s, v.val)
                                    IN  CASE At(t, next) = "," ->
                                                ParseMembers(t, SkipOver(JsonWs, t, next + 1), members)
                                          [] At(t, next) = "}" ->
                                                Parsed(VObj(members), next + 1)
                                          [] OTHER -> SyntaxError
ParseElements(t, i, acc) ==
    LET v == ParseValue(t, i)
    IN  IF ~v.ok THEN SyntaxError
        ELSE LET next == SkipOver(JsonWs, t, v.pos)
                 elements == Append(acc, Member(<<>>, v.val))
             IN  CASE At(t, next) = "," -> ParseElements(t, SkipOver(JsonWs, t, next + 1), elements)
                   [] At(t, next) = "]" ->
                         Parsed(Value("array", 0, <<>>, elements), next + 1)
                   [] OTHER -> SyntaxError

\* JSON.parse(t): ok is FALSE when it throws a SyntaxError
JSONparse(t) ==
    LET v == ParseValue(t, SkipOver(JsonWs, t, 1))
    IN  IF v.ok /\ SkipOver(JsonWs, t, v.pos) = Len(t) + 1 THEN v ELSE SyntaxError

(***************************************************************************)
(* The three regular expressions of extractJSON                            *)
(***************************************************************************)
NoMatch == [found |-> FALSE, cap |-> <<>>]
Match(cap) == [found |-> TRUE, cap |-> cap]

\* text.match(/BT{3}(?:json)?\s*([\s\S]*?)\s*BT{3}/): the match starts at the
\* first fence; the group starts after the optional "json" and the
\* whitespace that follows, and ends where the whitespace before the next
\* fence starts
FencedMatch(t) ==
    LET open == IndexOf(t, 1, Fence)
        afterJson == IF StartsWith(t, open + 3, Word.json) THEN open + 7 ELSE open + 3
        from == SkipOver(RegexWs, t, afterJson)
        close == IndexOf(t, from, Fence)
        to == MinOf({ e \in from..close : \A k \in e..(close - 1) : t[k] \in RegexWs })
    IN  IF open = 0 THEN NoMatch
        ELSE IF close = 0 THEN NoMatch
        ELSE Match(SubSeq(t, from, to - 1))

\* mutant of BracketMatch: the group ends at the first closing bracket
BracketMatch_lazy(t) ==
    LET Opens(o, c) == { p \in 1..Len(t) : t[p] = o /\ \E r \in (p + 1)..Len(t) : t[r] = c }
        S == Opens("{", "}") \cup Opens("[", "]")
        p == MinOf(S)
        c == IF p \in Opens("{", "}") THEN "}" ELSE "]"
        r == MinOf({ x \in (p + 1)..Len(t) : t[x] = c })
    IN  IF S = {} THEN NoMatch ELSE Match(SubSeq(t, p, r))

\* text.match(/(\{[\s\S]*\}|\[[\s\S]*\])/): the leftmost "{" with a "}" after
\* it or "[" with a "]" after it, up to the last such closing bracket
BracketMatch(t) ==
    LET Opens(o, c) == { p \in 1..Len(t) : t[p] = o /\ \E r \in (p + 1)..Len(t) : t[r] = c }
        S == Opens("{", "}") \cup Opens("[", "]")
        p == MinOf(S)
        c == IF p \in Opens("{", "}") THEN "}" ELSE "]"
        r == MaxOf({ x \in (p + 1)..Len(t) : t[x] = c })
    IN  IF S = {} THEN NoMatch ELSE Match(SubSeq(t, p, r))

Labels == { Quote(Word.summary), Quote(Word.comments), Quote(Word.patches),
            Quote(Word.testCases) }

\* text.match(/(?:"summary"|"comments"|"patches"|"testCases")\s*:[\s\S]*?(\{[\s\S]*?\})/):
\* the leftmost label followed by a colon and, anywhere after it, by "{" and
\* then "}"; the group is the first "{" after the colon up to the first "}"
\* after that
LabeledMatch(t) ==
    LET Colon(p) ==
            LET l == CHOOSE w \in Labels : StartsWith(t, p, w)
                c == SkipOver(RegexWs, t, p + Len(l))
            IN  IF At(t, c) = ":" THEN c ELSE 0
        Open(p) == IndexOf(t, Colon(p) + 1, <<"{">>)
        Close(p) == IndexOf(t, Open(p) + 1, <<"}">>)
        S == { p \in 1..Len(t) :
                 /\ \E w \in Labels : StartsWith(t, p, w)
                 /\ Colon(p) # 0 /\ Open(p) # 0 /\ Close(p) # 0 }
        p == MinOf(S)
    IN  IF S = {} THEN NoMatch ELSE Match(SubSeq(t, Open(p), Close(p)))

(***************************************************************************)
(* extractJSON                                                             *)
(***************************************************************************)
InvalidInput == "Invalid input: expected string"
EmptyText == "Empty text provided"
DecodeFailure == "Could not extract valid JSON from response after multiple attempts"

\* the argument: t is its JavaScript type, c its characters when a string
TextArg(t, c) == [t |-> t, c |-> c]
StrArg(c) == TextArg("string", c)

\* tried lists the strategies whose JSON.parse was called
Throw(message, tried) ==
    [kind |-> "threw", val |-> VNull, message |-> message, tried |-> tried]
Return(val, tried) ==
    [kind |-> "returned", val |-> val, message |-> "", tried |-> tried]
NotDecoded == [kind |-> "none", val |-> VNull, message |-> "", tried |-> <<>>]

\* what each strategy hands to JSON.parse; found is FALSE when it hands nothing
DirectCandidate(c) == Match(TrimText(c))
FencedCandidate(c) ==
    LET jsonMatch == FencedMatch(c)
    IN  IF jsonMatch.found /\ jsonMatch.cap # <<>> THEN Match(TrimText(jsonMatch.cap))
        ELSE NoMatch
BracketCandidate(c) ==
    LET objectMatch == BracketMatch(c)
    IN  IF objectMatch.found /\ objectMatch.cap # <<>> THEN objectMatch ELSE NoMatch
LabeledCandidate(c) ==
    LET labeledMatch == LabeledMatch(c)
    IN  IF labeledMatch.found /\ labeledMatch.cap # <<>> THEN labeledMatch ELSE NoMatch

\* mutant of Recover: a fenced block that does not parse ends the decoding
Recover_abort(c) ==
    LET fenced == FencedCandidate(c)
        t2 == IF fenced.found THEN <<1, 2>> ELSE <<1>>
        bracket == BracketCandidate(c)
        t3 == IF bracket.found THEN Append(t2, 3) ELSE t2
        labeled == LabeledCandidate(c)
        t4 == IF labeled.found THEN Append(t3, 4) ELSE t3
    IN  IF fenced.found /\ JSONparse(fenced.cap).ok
        THEN Return(JSONparse(fenced.cap).val, t2)
        ELSE IF fenced.found THEN Throw(DecodeFailure, t2)
        ELSE IF bracket.found /\ JSONparse(bracket.cap).ok
        THEN Return(JSONparse(bracket.cap).val, t3)
        ELSE IF labeled.found /\ JSONparse(labeled.cap).ok
        THEN Return(JSONparse(labeled.cap).val, t4)
        ELSE Throw(DecodeFailure, t4)

\* the catch block of extractJSON: the strategies after the direct parse
Recover(c) ==
    LET fenced == FencedCandidate(c)
        t2 == IF fenced.found THEN <<1, 2>> ELSE <<1>>
        bracket == BracketCandidate(c)
        t3 == IF bracket.found THEN Append(t2, 3) ELSE t2
        labeled == LabeledCandidate(c)
        t4 == IF labeled.found THEN Append(t3, 4) ELSE t3
    IN  IF fenced.found /\ JSONparse(fenced.cap).ok
        THEN Return(JSONparse(fenced.cap).val, t2)
        ELSE IF bracket.found /\ JSONparse(bracket.cap).ok
        THEN Return(JSONparse(bracket.cap).val, t3)
        ELSE IF labeled.found /\ JSONparse(labeled.cap).ok
        THEN Return(JSONparse(labeled.cap).val, t4)
        ELSE Throw(DecodeFailure, t4)

\* mutant of extractJSON: the fenced block is tried before the direct parse
extractJSON_fencedFirst(arg) ==
    IF arg.t # "string" \/ arg.c = <<>> THEN Throw(InvalidInput, <<>>)
    ELSE IF Len(TrimText(arg.c)) = 0 THEN Throw(EmptyText, <<>>)
    ELSE LET fenced == FencedCandidate(arg.c)
             direct == JSONparse(TrimText(arg.c))
         IN  IF fenced.found /\ JSONparse(fenced.cap).ok
             THEN Return(JSONparse(fenced.cap).val, <<2>>)
             ELSE IF direct.ok THEN Return(direct.val, <<2, 1>>)
             ELSE Recover(arg.c)

\* mutant of extractJSON: a string goes to the strategies unchecked
extractJSON_unchecked(arg) ==
    IF arg.t # "string" THEN Throw(InvalidInput, <<>>)
    ELSE LET direct == JSONparse(TrimText(arg.c))
         IN  IF direct.ok THEN Return(direct.val, <<1>>)
             ELSE Recover(arg.c)

extractJSON(arg) ==
    IF arg.t # "string" \/ arg.c = <<>> THEN Throw(InvalidInput, <<>>)
    ELSE LET trimmed == TrimText(arg.c)
         IN  IF Len(trimmed) = 0 THEN Throw(EmptyText, <<>>)
             ELSE LET direct == JSONparse(trimmed)
                  IN  IF direct.ok THEN Return(direct.val, <<1>>)
                      ELSE Recover(arg.c)

(***************************************************************************)
(* The texts extractJSON is applied to                                     *)
(***************************************************************************)
MaxFragments == 3       \* texts are made of up to this many fragments

\* the JSON objects X: no member, one member with any value, two members
Objects ==
    LET Keys == { <<"a">>, Word.summary, Word.comments, <<"k", Q>> }
        Atoms ==
            { VNull, VBool(TRUE), VBool(FALSE), VNum(0), VNum(7), VNum(120),
              VStr(<<>>), VStr(<<"o", "k">>), VStr(<<SP, "x", SP>>),
              VStr(Fence),
              VStr(<<"a">> \o Fence \o Word.json \o <<NL, "{", "}", NL>> \o Fence),
              VStr(<<"{">>), VStr(<<"}">>), VStr(<<"[", "1", "]">>),
              VStr(<<Q, BS, NL>>) }
        FewAtoms == { VNum(1), VStr(<<SP>> \o Fence) }
        Values ==
            Atoms \cup { VArr(<<>>), VObj(<<>>) }
            \cup { VArr(<<a>>) : a \in Atoms }
            \cup { VArr(<<VNum(1), a>>) : a \in FewAtoms }
            \cup { VObj(<<Member(k, a)>>) : k \in Keys, a \in Atoms }
    IN  { VObj(<<>>) }
        \cup { VObj(<<Member(k, v)>>) : k \in Keys, v \in Values }
        \cup { VObj(<<Member(k[1], v), Member(k[2], a)>>) :
                 k \in { p \in Keys \X Keys : p[1] # p[2] }, v \in Atoms, a \in FewAtoms }

Forms == { "plain", "fencedLines", "fencedTight", "fencedSpaced" }

\* stringify(X) as it is, or inside a fenced json block
Wrap(form, s) ==
    CASE form = "plain" -> s
      [] form = "fencedLines" -> Fence \o Word.json \o <<NL>> \o s \o <<NL>> \o Fence
      [] form = "fencedTight" -> Fence \o Word.json \o s \o Fence
      [] form = "fencedSpaced" -> Fence \o Word.json \o <<SP>> \o s \o <<SP, NL>> \o Fence

\* the texts made of at most n fragments
RECURSIVE FragmentTexts(_)
FragmentTexts(n) ==
    LET Fragments ==
            { Fence, Word.json, <<"{">>, <<"}">>, <<"[">>, <<"]">>, <<"1">>, <<SP>>,
              Quote(Word.summary), <<":">>, <<",">> }
        shorter == FragmentTexts(n - 1)
    IN  IF n = 0 THEN { <<>> }
        ELSE shorter \cup { t \o f : t \in shorter, f \in Fragments }

\* texts on which the strategies disagree or fail
LadderTexts ==
    { \* valid JSON that contains a fenced block with other JSON
      Quote(Fence \o <<"1">> \o Fence),
      Stringify(VObj(<<Member(<<"a">>, VStr(Fence \o <<"[", "1", "]">> \o Fence))>>)),
      <<"[">> \o Quote(Fence \o Word.json \o <<SP, "{", "}", SP>> \o Fence) \o <<"]">>,
      \* valid JSON with whitespace around and inside
      <<SP, NL, "{", SP>> \o Quote(<<"a">>) \o <<SP, ":", NL, "1", SP, "}", NL>>,
      \* a repeated key
      <<"{">> \o Quote(<<"a">>) \o <<":", "1", ",">> \o Quote(<<"b">>) \o <<":", "2", ",">>
          \o Quote(<<"a">>) \o <<":", "3", "}">>,
      \* a fenced block and a bracketed value that differ
      Fence \o <<"7">> \o Fence \o <<SP, "[", "1", "]">>,
      <<"x", SP>> \o Fence \o Word.json \o <<NL>> \o Word.null \o <<NL>> \o Fence \o <<"{", "}">>,
      \* a fenced block that does not parse, a bracketed value that does
      Fence \o <<"o", "o", "p", "s">> \o Fence \o <<SP, "[", "1", "]">>,
      \* an empty fenced block
      Fence \o Fence \o <<SP, "[", "2", "]">>,
      Fence \o Word.json \o Fence,
      Fence \o Word.json \o <<SP, NL>> \o Fence \o <<"{", "}">>,
      \* four backticks
      <<BT>> \o Fence \o <<"1">> \o Fence,
      \* a bracketed span that does not parse, a labeled object that does
      <<"x", SP>> \o Quote(Word.summary) \o <<":", SP, "{">> \o Quote(<<"a">>)
          \o <<":", "1", "}", SP, "}">>,
      Quote(Word.patches) \o <<SP, ":", "x", "{", "}", "{", "}">>,
      \* a fenced block and a bracketed span that do not parse, a labeled object that does
      Fence \o <<"o", "o", "p", "s">> \o Fence \o <<SP>> \o Quote(Word.summary)
          \o <<":", SP, "{">> \o Quote(<<"a">>) \o <<":", "1", "}", SP, "}">>,
      Quote(Word.summary) \o <<SP>> \o Quote(Word.testCases) \o <<NL, ":", "[",  "{", "}", "}">>,
      \* a bracketed value and a labeled object that differ
      <<"[", "1", "]", SP>> \o Quote(Word.comments) \o <<":", SP, "{", "}">>,
      \* a raw line break inside a string literal
      <<"{">> \o Quote(<<"a">>) \o <<":", Q, "x", NL, "y", Q, "}">>,
      \* escapes
      Quote(<<"a">>) \o <<SP>>,
      <<Q, BS, "n", BS, "t", BS, "/", BS, BS, BS, Q, Q>>,
      <<Q, BS, "x", Q>>,
      <<Q, "a">>,
      \* numbers and words
      <<"0", "1">>, <<"1", "0">>, <<"0">>, Word.true, Word.false, Word.null \o <<"l">>,
      <<"[", "1", ",", "]">>, <<"[", "1", SP, "2", "]">>,
      <<"{">> \o Quote(<<"a">>) \o <<"}">>,
      <<"{", "a", ":", "1", "}">>,
      \* nothing to find
      <<"n", "o", SP, "j", "s", "o", "n">>, <<"{", "{">>, <<"]", "[">> }

\* where a text comes from: form "text" is a text as it is
Origin(form, x) == [form |-> form, x |-> x]
NoOrigin == Origin("text", VNull)

DecoderInputs ==
    { <<StrArg(Wrap(f, Stringify(x))), Origin(f, x)>> : f \in Forms, x \in Objects }
    \cup { <<StrArg(t), NoOrigin>> :
             t \in FragmentTexts(MaxFragments) \cup LadderTexts
                   \cup { <<>>, <<SP>>, <<SP, NL, SP>> } }
    \cup { <<TextArg(t, <<>>), NoOrigin>> : t \in {"undefined", "null", "number", "object"} }

DecoderQuiet ==
    /\ text = TextArg("undefined", <<>>)
    /\ origin = NoOrigin
    /\ decoded = NotDecoded
    /\ dpc = "off"

DecoderInit ==
    /\ \E input \in DecoderInputs : text = input[1] /\ origin = input[2]
    /\ decoded = NotDecoded
    /\ dpc = "ready"

\* extractJSON(text) is called and returns or throws
ExtractJSON ==
    /\ dpc = "ready"
    /\ decoded' = extractJSON(text)
    /\ dpc' = "done"
    /\ UNCHANGED <<text, origin, routerVars, sanitizerVars, handlerVars, otherVars>>

(***************************************************************************)
(* Review route: router.post("/") of routes/reviewPR.js                    *)
(*                                                                         *)
(* The route imports callModel from services/modelRouter.js.  What the     *)
(* awaited callModel can settle with is computed from that router's        *)
(* synchronous checks (Entry) on the single message the handler builds;    *)
(* the text of a validated provider response is any of ReviewTexts.        *)
(***************************************************************************)
DiffsCap == 100000          \* body.diffs.length > 100000
TitleCap == 500             \* body.title.length > 500
DescriptionCap == 5000      \* body.description.length > 5000
FilesCap == 1000            \* body.filesChanged.length > 1000
FilesSlice == 100           \* filesChanged.slice(0, 100)
ReviewMaxTokens == 2000     \* callModel("gemini-2.0-pro", [...], 2000)
RawSummaryCap == 2000       \* responseText.substring(0, 2000)
PromptHead == 210           \* characters of the review template before the diffs
PromptTail == 563           \* characters of the review template after the diffs

\* req.body: t is its type; diffs, title, description are JavaScript values;
\* files is filesChanged: its type, its length and the index of its first
\* entry that is no string (0 when all are strings)
Body(t, diffs, title, description, files) ==
    [t |-> t, diffs |-> diffs, title |-> title, description |-> description,
     files |-> files]

\* the request bodies, and NODE_ENV === "development" or not
ReviewRequests ==
    LET Files(t, n, bad) == [t |-> t, n |-> n, bad |-> bad]
        Diffs == { JUndef, JStr(<<>>), JStr(Blank(3)), JNum(5), JStr(Txt(50)),
                   JStr(Txt(DiffsCap - 826)), JStr(Txt(DiffsCap - 825)),
                   JStr(Txt(DiffsCap)), JStr(Txt(DiffsCap + 1)) }
        Titles == { JUndef, JStr(Txt(20)), JStr(Txt(TitleCap + 1)), JNum(1) }
        Descriptions == { JUndef, JStr(Txt(100)), JStr(Txt(DescriptionCap + 1)) }
        FileLists == { Files("undefined", 0, 0), Files("array", 0, 0), Files("array", 2, 0),
                       Files("array", 2, 2), Files("array", FilesCap + 1, 0),
                       Files("other", 0, 0) }
        Bodies == { Body("undefined", JUndef, JUndef, JUndef, Files("undefined", 0, 0)) }
                  \cup { Body("object", d, t, s, f) :
                           d \in Diffs, t \in Titles, s \in Descriptions, f \in FileLists }
    IN  { [body |-> b, dev |-> dev] : b \in Bodies, dev \in BOOLEAN }

\* validatePRInput(body): the errors, in order
validatePRInput(body) ==
    LET diffs == IF ~Truthy(body.diffs)
                      \/ (TypeofString(body.diffs) /\ StrLen(Trim(body.diffs.s)) = 0)
                 THEN <<"diffs is required and cannot be empty">>
                 ELSE IF ~TypeofString(body.diffs) THEN <<"diffs must be a string">>
                 ELSE IF StrLen(body.diffs.s) > DiffsCap
                 THEN <<"diffs exceeds maximum size (100KB)">>
                 ELSE <<>>
        title == IF body.title.t = "undefined" THEN <<>>
                 ELSE IF ~TypeofString(body.title) THEN <<"title must be a string">>
                 ELSE IF StrLen(body.title.s) > TitleCap
                 THEN <<"title exceeds maximum length (500 chars)">>
                 ELSE <<>>
        description ==
                 IF body.description.t = "undefined" THEN <<>>
                 ELSE IF ~TypeofString(body.description)
                 THEN <<"description must be a string">>
                 ELSE IF StrLen(body.description.s) > DescriptionCap
                 THEN <<"description exceeds maximum length (5000 chars)">>
                 ELSE <<>>
        files == IF body.files.t = "undefined" THEN <<>>
                 ELSE IF body.files.t # "array" THEN <<"filesChanged must be an array">>
                 ELSE IF body.files.n > FilesCap
                 THEN <<"filesChanged exceeds maximum array length (1000 items)">>
                 ELSE IF body.files.bad # 0 THEN <<"filesChanged[i] must be a string">>
                 ELSE <<>>
    IN  IF body.t # "object" THEN <<"Request body must be a valid JSON object">>
        ELSE diffs \o title \o description \o files

\* safeFilesChanged.length: slice(0, 100), then the strings only
FilesAnalyzed(body) ==
    IF body.files.t # "array" THEN 0
    ELSE LET n == IF body.files.n < FilesSlice THEN body.files.n ELSE FilesSlice
         IN  IF body.files.bad \in 1..n THEN n - 1 ELSE n

\* reviewPrompt(safeTitle, safeDescription, diffs, safeFilesChanged) of a
\* body that passed validatePRInput; a file name has four characters
reviewPrompt(body) ==
    LET safeTitle == IF TypeofString(body.title) THEN Substring(body.title.s, TitleCap)
                     ELSE <<>>
        safeDescription == IF TypeofString(body.description)
                           THEN Substring(body.description.s, DescriptionCap)
                           ELSE <<>>
        n == FilesAnalyzed(body)
        meta == (IF safeTitle = <<>> THEN 11 ELSE StrLen(safeTitle))       \* "Untitled PR"
                + (IF safeDescription = <<>> THEN 23 ELSE StrLen(safeDescription))
                + (IF n = 0 THEN 19 ELSE 4 * n + 2 * (n - 1))   \* join(", ")
    IN  Concat(Concat(Txt(PromptHead - 1 + meta) \o Blank(1), body.diffs.s),
               Blank(1) \o Txt(PromptTail - 1))

\* a text as a run-length string, characters lo..hi
RECURSIVE RunLength(_, _, _)
RunLength(c, lo, hi) ==
    IF lo > hi THEN <<>>
    ELSE IF lo = hi THEN <<[ws |-> c[lo] \in RegexWs, n |-> 1]>>
    ELSE LET mid == (lo + hi) \div 2
         IN  Concat(RunLength(c, lo, mid), RunLength(c, mid + 1, hi))

\* the value JSON.parse produced, as validateReview reads it
ToData(v) ==
    LET Str(s) == RunLength(s, 1, Len(s))
        Get(x, key) ==
            IF x.k = "object" /\ \E i \in 1..Len(x.items) : x.items[i].key = key
            THEN x.items[CHOOSE i \in 1..Len(x.items) : x.items[i].key = key].val
            ELSE Value("undefined", 0, <<>>, <<>>)
        Js(x) == CASE x.k = "string" -> JStr(Str(x.s))
                   [] x.k = "number" -> JNum(x.n)
                   [] x.k = "undefined" -> JUndef
                   [] OTHER -> [t |-> x.k, s |-> <<>>, n |-> 0]
        ItemOf(x) ==
            CASE x.k = "object" ->
                    Item("object", Js(Get(x, <<"f", "i", "l", "e">>)),
                         Js(Get(x, <<"c", "o", "m", "m", "e", "n", "t">>)),
                         Js(Get(x, <<"d", "i", "f", "f">>)),
                         Get(x, <<"l", "i", "n", "e">>).n, <<>>)
              [] x.k = "string" -> StringItem(Str(x.s))
              [] OTHER -> OtherItem(x.k)
        FieldOf(x) ==
            CASE x.k = "string" -> StrField(Str(x.s))
              [] x.k = "array" -> ArrField([i \in 1..Len(x.items) |-> ItemOf(x.items[i].val)])
              [] x.k = "undefined" -> Missing
              [] OTHER -> Field(x.k, <<>>, <<>>)
    IN  IF v.k = "object"
        THEN Data("object", FieldOf(Get(v, Word.summary)), FieldOf(Get(v, Word.comments)),
                  FieldOf(Get(v, Word.patches)), FieldOf(Get(v, Word.testCases)))
        ELSE Plain(v.k)

\* What the awaited callModel settles with for the prompt of this body: the
\* error of a failed check, the mock placeholder, the aggregate failure, or
\* the text of a validated provider response (ReviewTexts).
Upstreams(body, mock) ==
    LET msgs == [t |-> "array", items |-> <<MObj(JStr(reviewPrompt(body)))>>]
        e == Entry("main", msgs, JNum(ReviewMaxTokens), mock)
        \* "Mock response (MOCK_MODE=true)"
        MockText ==
            <<"M", "o", "c", "k", SP, "r", "e", "s", "p", "o", "n", "s", "e", SP, "(", "M",
              "O", "C", "K", "_", "M", "O", "D", "E", "=", "t", "r", "u", "e", ")">>
        comment(file, body_) ==
            VObj(<<Member(<<"f", "i", "l", "e">>, VStr(file)),
                   Member(<<"l", "i", "n", "e">>, VNum(7)),
                   Member(<<"c", "o", "m", "m", "e", "n", "t">>, VStr(body_))>>)
        full == VObj(<<Member(Word.summary, VStr(<<SP, "o", "k", SP>>)),
                       Member(Word.comments,
                              VArr(<<comment(<<"a">>, <<"x">>), comment(<<SP>>, <<"x">>),
                                     VStr(<<"y">>)>>)),
                       Member(Word.patches, VArr(<<>>)),
                       Member(Word.testCases, VArr(<<VStr(<<"t">>), VNum(1)>>))>>)
        ReviewTexts ==
            { Stringify(full),
              Wrap("fencedLines", Stringify(full)),
              <<"S", "e", "e", SP>> \o Stringify(full),
              Stringify(VObj(<<Member(Word.comments, VNum(1))>>)),
              Word.null, <<"7">>, <<"[", "1", "]">>,
              <<"L", "G", "T", "M">>,
              <<SP, "n", "o", SP, "{", SP>>,
              [i \in 1..RawSummaryCap |-> "x"],
              <<SP>> \o [i \in 1..RawSummaryCap |-> "x"],
              [i \in 1..(RawSummaryCap + 1) |-> IF (i \div 100) % 2 = 1 THEN SP ELSE "x"] }
    IN  CASE e.kind = "loop" ->
                { Threw("allFailed",
                        "All AI providers failed - no response generated. Check API keys and connectivity.",
                        <<>>) }
                \cup { Returned("success", 1, StrArg(t)) : t \in ReviewTexts }
          [] e.kind = "mock" -> { Returned("mock", 0, StrArg(MockText)) }
          [] OTHER -> { Threw(e.kind, e.message, <<>>) }

\* what res.status(code).json(...) sent: message is err.message in parts,
\* doc the review fields of the body
Response(code, error, message, doc, raw, filesAnalyzed) ==
    [code |-> code, error |-> error, message |-> message, doc |-> doc, raw |-> raw,
     filesAnalyzed |-> filesAnalyzed]
NoResponse == Response(0, "", <<>>, createDefaultReview, FALSE, 0)

\* mutant of RawFallback: the summary is the whole response text
RawFallback_uncut(c) ==
    [createDefaultReview EXCEPT !.summary = RunLength(c, 1, Len(c))]

\* { ...createDefaultReview(), summary: responseText.substring(0, 2000) }
RawFallback(c) ==
    [createDefaultReview EXCEPT
        !.summary = RunLength(c, 1, IF Len(c) < RawSummaryCap THEN Len(c)
                                    ELSE RawSummaryCap)]

\* the handler from the settling of callModel to its response; reviewData is
\* what extractJSON(responseText) returns or throws
Respond(r, up, reviewData) ==
    LET \* the catch at the end of the handler
        Caught(message) ==
            Response(IF \E i \in 1..Len(message) : message[i] \in {"Validation failed"}
                     THEN 400 ELSE 500,          \* err.message.includes("Validation")
                     "Internal server error during review",
                     IF r.dev THEN message ELSE <<"Please try again">>,
                     createDefaultReview, FALSE, 0)
        responseText == up.content
    IN  IF up.kind \notin {"success", "mock"}
        THEN Caught(<<"AI service unavailable: ", up.message>>)
        ELSE IF responseText.t # "string" \/ responseText.c = <<>>
        THEN Response(500, "Empty response from AI model", <<>>, createDefaultReview,
                      FALSE, 0)
        ELSE IF Len(TrimText(responseText.c)) = 0
        THEN Response(500, "AI returned empty response", <<>>, createDefaultReview,
                      FALSE, 0)
        ELSE IF reviewData.kind = "threw"
        THEN Response(200, "", <<>>, RawFallback(responseText.c), TRUE, 0)
        ELSE Response(200, "", <<>>, validateReview(ToData(reviewData.val)), FALSE,
                      FilesAnalyzed(r.body))

(***************************************************************************)
(* Review route: actions                                                   *)
(***************************************************************************)
ReviewQuiet ==
    /\ req = [body |-> Body("undefined", JUndef, JUndef, JUndef,
                             [t |-> "undefined", n |-> 0, bad |-> 0]),
              dev |-> FALSE]
    /\ upstream = NoOutcome
    /\ sent = NoResponse
    /\ hpc = "off"

\* mutant of ReviewRequest: the model is called whatever validatePRInput says
ReviewRequest_unvalidated ==
    /\ hpc = "ready"
    /\ hpc' = "calling"
    /\ UNCHANGED <<req, upstream, sent, routerVars, sanitizerVars, decoderVars, otherVars>>

\* the handler up to "await callModel(...)": the request is refused, or the
\* model is called
ReviewRequest ==
    /\ hpc = "ready"
    /\ IF validatePRInput(req.body) # <<>>
       THEN /\ sent' = Response(400, "Validation failed", validatePRInput(req.body),
                               createDefaultReview, FALSE, 0)
            /\ hpc' = "done"
       ELSE /\ hpc' = "calling"
            /\ UNCHANGED sent
    /\ UNCHANGED <<req, upstream, routerVars, sanitizerVars, decoderVars, otherVars>>

\* callModel settles and the handler answers
ReviewReply ==
    /\ hpc = "calling"
    /\ \E up \in Upstreams(req.body, mockMode) :
          /\ upstream' = up
          /\ sent' = Respond(req, up, extractJSON(up.content))
    /\ hpc' = "done"
    /\ UNCHANGED <<req, routerVars, sanitizerVars, decoderVars, otherVars>>

(***************************************************************************)
(* The server: the request timeout and the three route handlers            *)
(***************************************************************************)
\* the status codes the handlers and the timeout callback send
Ok == 200
BadRequest == 400
RequestTimeout == 408
ServerError == 500

\* One request: route is the handler that serves it, express the major
\* version of the express package installed (4 leaves a rejected handler
\* promise to the process, 5 hands it to the error handler), dev is NODE_ENV
\* = "development", valid is whether the route's input validation passes.
\* sends lists every res.json call, by whom, and whether it threw because the
\* headers were already sent.
ServerRequest(route, express, dev, valid) ==
    [route |-> route, express |-> express, dev |-> dev, valid |-> valid,
     timer |-> "off", handler |-> "new", settled |-> "no", headersSent |-> FALSE,
     sends |-> <<>>, destroyed |-> FALSE, alive |-> TRUE]

ServerQuiet == server = ServerRequest("none", 4, FALSE, FALSE)

ServerInit ==
    \E route \in {"complete", "chat", "review"}, express \in {4, 5}, dev, valid \in BOOLEAN :
        server = ServerRequest(route, express, dev, valid)

\* res.status(code).json(body): the call throws when the headers are sent
Send(sv, by, code) ==
    [sv EXCEPT !.sends = Append(@, [by |-> by, code |-> code, threw |-> sv.headersSent,
                                      message |-> sv.dev /\ code = ServerError]),
               !.headersSent = TRUE]

\* the middleware arms the timer and the handler runs up to its first await:
\* it answers 400, or calls callModel
Arrive ==
    /\ server.handler = "new" /\ server.route # "none"
    /\ server' = IF server.valid
                 THEN [server EXCEPT !.timer = "armed", !.handler = "awaiting"]
                 ELSE [Send(server, "handler", BadRequest)
                          EXCEPT !.timer = "armed", !.handler = "done"]
    /\ UNCHANGED <<routerVars, sanitizerVars, decoderVars, handlerVars, hook, ctxt, twin>>

\* the callback of res.setTimeout(30000, ...)
Timeout ==
    /\ server.timer = "armed" /\ server.alive
    /\ server' = IF ~server.headersSent
                 THEN [Send(server, "timeout", RequestTimeout) EXCEPT !.timer = "fired"]
                 ELSE [server EXCEPT !.timer = "fired"]
    /\ UNCHANGED <<routerVars, sanitizerVars, decoderVars, handlerVars, hook, ctxt, twin>>

\* callModel settles and the handler runs to its end: with content it answers
\* 200, without content or after a throw it answers 500 from its catch block
\* (the review route answers 500 before it gets there when the content is
\* missing).  A res.json that throws inside try is followed by the one of the
\* catch block; one that throws in the catch block rejects the handler's
\* promise, which ends the process (express 4, "unhandledRejection") or
\* reaches the global error handler, whose res.json throws as well.
Settle ==
    /\ server.handler = "awaiting" /\ server.alive
    /\ \E how \in {"content", "noContent", "throws"} :
          LET first == CASE how = "content" -> Send(server, "handler", Ok)
                         [] how = "noContent" /\ server.route = "review" ->
                                Send(server, "handler", ServerError)
                         [] OTHER -> server
              inCatch == how # "content" /\ ~(how = "noContent" /\ server.route = "review")
              second == IF inCatch \/ server.headersSent
                        THEN Send(first, "handler", ServerError) ELSE first
              rejected == server.headersSent
              third == IF rejected /\ server.express = 5
                       THEN [Send(second, "errorHandler", ServerError)
                                EXCEPT !.destroyed = TRUE]
                       ELSE second
          IN  server' = [third EXCEPT !.handler = IF rejected THEN "rejected" ELSE "done",
                                      !.settled = how,
                                      !.alive = ~(rejected /\ server.express = 4)]
    /\ UNCHANGED <<routerVars, sanitizerVars, decoderVars, handlerVars, hook, ctxt, twin>>

(***************************************************************************)
(* The webhook server: POST /webhook                                       *)
(***************************************************************************)
NoContent == 204

\* parseInt(s, 10) of a string given as its characters: leading whitespace
\* and one sign are skipped, the digits that follow are read, and what comes
\* after them is ignored; NaN when there is no digit
parseInt(s) ==
    LET b == SkipOver(RegexWs, s, 1)
        d == IF At(s, b) \in {"-", "+"} THEN b + 1 ELSE b
        n == ParseDigits(s, d, 0).val.n
    IN  IF DigitVal(At(s, d)) >= 0
        THEN [nan |-> FALSE, n |-> IF At(s, b) = "-" THEN 0 - n ELSE n]
        ELSE [nan |-> TRUE, n |-> 0]

\* the x-event-key header ("" when absent), req.body.pullrequest and its id
HookRequest(eventKey, pr, id) ==
    [eventKey |-> eventKey, pr |-> pr, id |-> id, pc |-> "new", prId |-> 0,
     fetched |-> <<>>, diffs |-> <<>>, reviews |-> <<>>, posted |-> <<>>,
     responses |-> <<>>]

HookQuiet == hook = HookRequest("", "undefined", [t |-> "undefined", n |-> 0, c |-> <<>>])

HookInit ==
    LET Ids == { [t |-> "undefined", n |-> 0, c |-> <<>>], [t |-> "null", n |-> 0, c |-> <<>>],
                 [t |-> "boolean", n |-> 1, c |-> <<>>], [t |-> "object", n |-> 0, c |-> <<>>],
                 [t |-> "number", n |-> 0, c |-> <<>>], [t |-> "number", n |-> 42, c |-> <<>>],
                 [t |-> "string", n |-> 0, c |-> <<>>],
                 [t |-> "string", n |-> 0, c |-> <<"4", "2">>],
                 [t |-> "string", n |-> 0, c |-> <<SP, "-", "7">>],
                 [t |-> "string", n |-> 0, c |-> <<"a", "b", "c">>],
                 [t |-> "string", n |-> 0, c |-> <<"1", "2", "a", "b", "c">>] }
    IN  \E eventKey \in {"", "pullrequest:created", "pullrequest", "repo:push"},
           pr \in {"undefined", "null", "string", "object"}, id \in Ids :
            /\ pr # "object" => id.t = "undefined"
            /\ hook = HookRequest(eventKey, pr, id)

\* res.status(code).json({status, error})
Answer(h, code, status) ==
    [h EXCEPT !.responses = Append(@, [code |-> code, status |-> status]), !.pc = "done"]

\* the handler up to "await getPRDiff(...)"
Webhook ==
    LET parsed == IF hook.id.t = "string" THEN parseInt(hook.id.c)
                  ELSE [nan |-> FALSE, n |-> hook.id.n]
        \* !prId: undefined, null, 0 and ""
        falsy == \/ hook.id.t \in {"undefined", "null"}
                 \/ hook.id.t = "number" /\ hook.id.n = 0
                 \/ hook.id.t = "string" /\ hook.id.c = <<>>
    IN  /\ hook.pc = "new"
        /\ hook' =
             IF hook.eventKey # "" /\ hook.eventKey \notin {"pullrequest:created"}
             THEN Answer(hook, NoContent, "ignored")
             ELSE IF hook.pr # "object"
             THEN Answer(hook, BadRequest, "Invalid payload: missing pullrequest object")
             ELSE IF falsy
             THEN Answer(hook, BadRequest, "Invalid payload: missing id")
             ELSE IF hook.id.t \notin {"string", "number"} \/ parsed.nan
             THEN Answer(hook, BadRequest, "Invalid PR ID")
             ELSE [hook EXCEPT !.pc = "fetching", !.prId = parsed.n,
                               !.fetched = Append(@, parsed.n)]
        /\ UNCHANGED <<routerVars, sanitizerVars, decoderVars, handlerVars, server, ctxt, twin>>

\* getPRDiff settles: it throws, or returns nothing, "" or a diff
DiffSettles ==
    /\ hook.pc = "fetching"
    /\ \E diff \in {"throws", "null", "empty", "diff"} :
          hook' = CASE diff = "throws" -> Answer(hook, ServerError, "getPRDiff failed")
                    [] diff \in {"null", "empty"} ->
                          Answer([hook EXCEPT !.diffs = Append(@, diff)], Ok, "skipped")
                    [] OTHER -> [hook EXCEPT !.diffs = Append(@, diff), !.pc = "reviewing"]
    /\ UNCHANGED <<routerVars, sanitizerVars, decoderVars, handlerVars, server, ctxt, twin>>

\* What reviewDiff settles with, and the text the handler makes of it
\* (lines 110-143): kind "throws" is an exception of reviewDiff or of the
\* rendering, text the reviewText otherwise.
Reviews ==
    LET Rendered(kind, txt) == [kind |-> kind, text |-> txt]
        Summary(s) == Txt(12) \o Blank(2) \o s      \* "**Summary**:\n\n" + summary
    IN  { Rendered("throws", <<>>),                 \* reviewDiff throws
          Rendered("falsy", <<>>),                  \* null, undefined, "", 0
          Rendered("string", Txt(40)),
          Rendered("string", Blank(3)),
          Rendered("number", <<>>),                 \* unsupported format
          Rendered("review", Txt(40)),              \* {review: "..."}
          Rendered("review", Blank(1) \o Txt(5) \o Blank(1)),
          Rendered("review", Blank(2)),             \* {review: "  "}
          Rendered("parts", Summary(Txt(30))),      \* {summary: "..."}
          Rendered("parts", Summary(Blank(2))),     \* {summary: "  "}
          Rendered("parts", Summary(Txt(30)) \o Blank(2) \o Txt(13) \o Blank(2) \o Txt(20)),
          Rendered("badEntry", <<>>),               \* {comments: [null]}: c.file throws
          Rendered("stringified", Txt(2)) }         \* {}: JSON.stringify(rawReview)

\* reviewDiff settles and the handler renders the review: it answers 500, or
\* calls postPRComment
ReviewSettles ==
    /\ hook.pc = "reviewing"
    /\ \E r \in Reviews :
          LET h == [hook EXCEPT !.reviews = Append(@, r)]
          IN  hook' =
                CASE r.kind = "throws" -> Answer(h, ServerError, "reviewDiff failed")
                  [] r.kind = "falsy" -> Answer(h, ServerError, "Empty review generated")
                  [] r.kind = "number" ->
                        Answer(h, ServerError, "Unsupported review format returned from backend")
                  [] r.kind = "badEntry" -> Answer(h, ServerError, "TypeError")
                  [] StrLen(Trim(r.text)) = 0 -> Answer(h, ServerError, "Empty review text")
                  [] OTHER -> [h EXCEPT !.posted = Append(@, r.text), !.pc = "posting"]
    /\ UNCHANGED <<routerVars, sanitizerVars, decoderVars, handlerVars, server, ctxt, twin>>

\* postPRComment settles
CommentSettles ==
    /\ hook.pc = "posting"
    /\ \E ok \in BOOLEAN :
          hook' = IF ok THEN Answer(hook, Ok, "success")
                  ELSE Answer(hook, ServerError, "postPRComment failed")
    /\ UNCHANGED <<routerVars, sanitizerVars, decoderVars, handlerVars, server, ctxt, twin>>

(***************************************************************************)
(* buildFileContext                                                        *)
(***************************************************************************)
DefaultContextLines == 50

\* A cursor line: t its type, v its value when it is a number, str what
\* String() makes of it.  A number from 10^21 on is written with an
\* exponent; v stands for it by a number beyond every line count.
CursorLine(t, v, str) == [t |-> t, v |-> v, str |-> str]
\* an integer, String() of which is its decimal digits
IntLine(v) == CursorLine("number", v, IF v < 0 THEN <<"-">> \o Digits(0 - v) ELSE Digits(v))

\* the arguments: a content of n lines (line i is numbered i + 1), the cursor
\* line and contextLines
ContextCall(content, n, line, contextLines) ==
    [content |-> content, n |-> n, line |-> line, contextLines |-> contextLines,
     result |-> <<>>, pc |-> "ready"]

ContextQuiet ==
    ctxt = [ContextCall("undefined", 0, CursorLine("undefined", 0, <<>>), DefaultContextLines)
               EXCEPT !.pc = "off"]

\* the cursor lines validateCompletionInput lets through (numbers and falsy
\* values) and the contents of the call in the completion route
ContextInit ==
    LET Lines == { IntLine(v) : v \in {0 - 5, 0, 1, 2, 3, 49, 50, 51, 60, 100, 130} }
                 \cup { CursorLine("number", 1000000000, <<"1", "e", "+", "2", "1">>),
                        CursorLine("undefined", 0, <<"u", "n", "d", "e", "f", "i", "n", "e", "d">>),
                        CursorLine("null", 0, Word.null),
                        CursorLine("boolean", 0, Word.false),
                        CursorLine("string", 0, <<>>) }
        Contents == { <<"undefined", 0>>, <<"number", 0>>, <<"string", 0>> }
                    \cup { <<"string", n>> : n \in {1, 3, 50, 60, 101, 120} }
    IN  \E c \in Contents, line \in Lines, k \in {2, DefaultContextLines} :
            ctxt = ContextCall(c[1], c[2], line, k)

\* buildFileContext(content, {line}, contextLines): the numbered lines it
\* joins; no line is the empty string
buildFileContext(content, n, line, contextLines) ==
    LET parsed == parseInt(line.str)
        cursorLine == MaxOf({0, IF parsed.nan THEN 0 ELSE parsed.n})
        start == MaxOf({cursorLine - contextLines, 0})
        end == MinOf({cursorLine + contextLines, n})
    IN  IF content # "string" \/ n = 0 THEN <<>>
        ELSE [i \in 1..MaxOf({MinOf({end, n}) - MinOf({start, n}), 0}) |->
                 [number |-> start + i, line |-> start + i - 1]]

BuildFileContext ==
    /\ ctxt.pc = "ready"
    /\ ctxt' = [ctxt EXCEPT !.pc = "done",
                            !.result = buildFileContext(ctxt.content, ctxt.n, ctxt.line,
                                                        ctxt.contextLines)]
    /\ UNCHANGED <<routerVars, sanitizerVars, decoderVars, handlerVars, server, hook, twin>>

(***************************************************************************)
(* The two routers side by side                                            *)
(***************************************************************************)
\* callModel of router v run to its end in a fresh process with environment
\* e and MOCK_MODE off, when the provider call of attempt i settles with
\* fates[i]: the attempts it issued calls for, in order, and how it ended
RECURSIVE FallbackLoop(_, _, _, _, _)
FallbackLoop(v, clients, fates, i, issued) ==
    LET a == FALLBACK_MODELS[i] IN
    IF i > NumAttempts THEN [calls |-> issued, end |-> "allFailed", attempt |-> 0]
    ELSE IF a.provider # "ollama" /\ ~clients[a.provider]
    THEN FallbackLoop(v, clients, fates, i + 1, issued)
    ELSE IF Attempt(v, a.provider, fates[i]).ok
    THEN [calls |-> Append(issued, i), end |-> "success", attempt |-> i]
    ELSE FallbackLoop(v, clients, fates, i + 1, Append(issued, i))

Run(v, e, msgs, mt, fates) ==
    LET entry == Entry(v, msgs, EffectiveMaxTokens(mt), FALSE)
        none == [p \in {"gemini", "groq", "openai"} |-> FALSE]
    IN  IF entry.kind # "loop" THEN [calls |-> <<>>, end |-> entry.kind, attempt |-> 0]
        ELSE FallbackLoop(v, InitializedClients(v, e, none, FALSE), fates, 1, <<>>)

NotRun == [calls |-> <<>>, end |-> "none", attempt |-> 0]

TwinRequest(e, msgs, mt, fates) ==
    [env |-> e, messages |-> msgs, maxTokens |-> mt, fates |-> fates,
     main |-> NotRun, optimized |-> NotRun, pc |-> "ready"]

TwinQuiet ==
    twin = [TwinRequest([p \in {"gemini", "groq", "openai"} |-> "absent"], NotAnArray,
                        JUndef, <<>>) EXCEPT !.pc = "off"]

\* requests with non-empty messages of non-empty string contents and a
\* positive maxTokens, every credential configuration, and for each attempt a
\* provider call that rejects, answers with text or answers without content
TwinInit ==
    LET Requests ==
            { [t |-> "array", items |-> <<Filler>>],
              [t |-> "array", items |-> <<Filler, MObj(JStr(Blank(2)))>>],
              [t |-> "array", items |-> <<MObj(JStr(Txt(MaxContentLen)))>>],
              [t |-> "array", items |-> <<MObj(JStr(Txt(MaxContentLen + 1)))>>] }
        Fates == { Reply(TRUE, TRUE, FALSE, 0, JUndef),
                   Reply(FALSE, TRUE, TRUE, 1, JStr(Txt(7))),
                   Reply(FALSE, TRUE, TRUE, 1, JUndef) }
    IN  \E e \in [{"gemini", "groq", "openai"} -> {"absent", "blank", "present"}],
           msgs \in Requests, mt \in {JUndef, JNum(1), JNum(TokenCeiling + 1)},
           fates \in [1..NumAttempts -> Fates] :
            twin = TwinRequest(e, msgs, mt, fates)

\* the request is handed to each router
Compare ==
    /\ twin.pc = "ready"
    /\ twin' = [twin EXCEPT
                  !.main = Run("main", twin.env, twin.messages, twin.maxTokens, twin.fates),
                  !.optimized = Run("optimized", twin.env, twin.messages, twin.maxTokens,
                                    twin.fates),
                  !.pc = "done"]
    /\ UNCHANGED <<routerVars, sanitizerVars, decoderVars, handlerVars, server, hook, ctxt>>

(***************************************************************************)
(* Specifications                                                          *)
(***************************************************************************)
\* the components of otherVars at rest
OtherQuiet == ServerQuiet /\ HookQuiet /\ ContextQuiet /\ TwinQuiet

\* the router with every request shape
InitRouter == RouterInit /\ SanitizerQuiet /\ DecoderQuiet /\ ReviewQuiet /\ OtherQuiet

SpecRouter == InitRouter /\ [][RouterNext]_vars

\* the router with well-formed requests and every provider reply
SpecFallback == InitRouter /\ [][FallbackNext]_vars

\* The router with every request shape, under the scheduling of the code:
\* the steps between two awaits run to completion (Skip, Invoke, Exhausted),
\* and every awaited provider call settles (Resolve).
SpecRouterFair ==
    /\ InitRouter /\ [][RouterNext]_vars
    /\ WF_vars(Skip) /\ WF_vars(Invoke) /\ WF_vars(Exhausted)
    /\ WF_vars(\E r \in { Reply(TRUE, TRUE, FALSE, 0, JUndef),
                           Reply(FALSE, TRUE, TRUE, 1, JStr(Txt(7))) } : Resolve(r))

\* validateReview applied to each input
InitSanitizer == SanitizerInit /\ RouterQuiet /\ DecoderQuiet /\ ReviewQuiet /\ OtherQuiet

SpecSanitizer == InitSanitizer /\ [][ValidateReview]_vars

\* extractJSON applied to each text
InitDecoder == DecoderInit /\ RouterQuiet /\ SanitizerQuiet /\ ReviewQuiet /\ OtherQuiet

SpecDecoder == InitDecoder /\ [][ExtractJSON]_vars

\* the review route applied to each request, with every way callModel settles:
\* a request has arrived, modelRouter.js is loaded
InitReview ==
    /\ req \in ReviewRequests
    /\ upstream = NoOutcome
    /\ sent = NoResponse
    /\ hpc = "ready"
    /\ mockMode \in BOOLEAN
    /\ variant = "main"
    /\ env = [p \in {"gemini", "groq", "openai"} |-> "absent"]
    /\ gemini = FALSE /\ groq = FALSE /\ openai = FALSE
    /\ clientsInitialized = FALSE
    /\ pc = "off"
    /\ modelName = NoModel
    /\ messages = NotAnArray
    /\ maxTokens = JUndef
    /\ idx = 1
    /\ inflight = {}
    /\ calls = <<>>
    /\ failedAttempts = <<>>
    /\ trace = <<>>
    /\ outcome = NoOutcome
    /\ SanitizerQuiet /\ DecoderQuiet /\ OtherQuiet

SpecReview == InitReview /\ [][ReviewRequest \/ ReviewReply]_vars

\* one request to each route, with the timeout at any moment after its arrival
InitServer ==
    /\ ServerInit /\ RouterQuiet /\ SanitizerQuiet /\ DecoderQuiet /\ ReviewQuiet
    /\ HookQuiet /\ ContextQuiet /\ TwinQuiet

SpecServer == InitServer /\ [][Arrive \/ Timeout \/ Settle]_vars

\* one POST /webhook with every header and payload shape and every way the
\* three awaited calls settle
InitWebhook ==
    /\ HookInit /\ RouterQuiet /\ SanitizerQuiet /\ DecoderQuiet /\ ReviewQuiet
    /\ ServerQuiet /\ ContextQuiet /\ TwinQuiet

WebhookNext == Webhook \/ DiffSettles \/ ReviewSettles \/ CommentSettles

SpecWebhook == InitWebhook /\ [][WebhookNext]_vars

\* buildFileContext applied to each content, cursor line and window
InitContext ==
    /\ ContextInit /\ RouterQuiet /\ SanitizerQuiet /\ DecoderQuiet /\ ReviewQuiet
    /\ ServerQuiet /\ HookQuiet /\ TwinQuiet

SpecContext == InitContext /\ [][BuildFileContext]_vars

\* each request handed to both routers
InitTwin ==
    /\ TwinInit /\ RouterQuiet /\ SanitizerQuiet /\ DecoderQuiet /\ ReviewQuiet
    /\ ServerQuiet /\ HookQuiet /\ ContextQuiet

SpecTwin == InitTwin /\ [][Compare]_vars

(***************************************************************************)
(* Claims about the router                                                 *)
(***************************************************************************)
\* the attempts of FALLBACK_MODELS that the calls issued so far went to
CalledAttempts == { calls[k].attempt : k \in 1..Len(calls) }

\* C1: first success wins. As soon as the provider call of attempt i has
\* returned a response that passes validation, callModel has returned that
\* response as its result, no call is in flight, no call to any attempt after
\* i has been issued, and none can be issued any more.
C1_FirstSuccessWins ==
    \A k \in 1..Len(trace) :
        trace[k].ok =>
            /\ pc = "done"
            /\ outcome.kind = "success"
            /\ outcome.attempt = trace[k].attempt
            /\ inflight = {}
            /\ \A i \in CalledAttempts : i <= trace[k].attempt
            /\ ~ENABLED Invoke

\* attempt 2 succeeded after attempt 1 failed, with Groq and OpenAI clients ready
C1_Witness ==
    /\ pc = "done" /\ outcome.kind = "success" /\ outcome.attempt = 2
    /\ Len(calls) = 2 /\ groq /\ openai

\* C2: the provider calls of one invocation follow the fixed order
\* gemini-2.0-flash, gemini-2.0-pro, groq, openai, ollama: each call goes to a
\* later position of that list than the call before it, so no attempt is
\* called twice and a failed attempt is never entered again.
C2_ConfiguredOrder ==
    <<"gemini-2.0-flash", "gemini-2.0-pro", "llama-3.1-70b-versatile",
      "gpt-4.1-mini", "llama3">>

C2_OrderedOnce ==
    /\ \A k \in 1..Len(calls) :
          /\ calls[k].attempt \in 1..Len(C2_ConfiguredOrder)
          /\ calls[k].model = C2_ConfiguredOrder[calls[k].attempt]
          /\ calls[k].provider =
                <<"gemini", "gemini", "groq", "openai", "ollama">>[calls[k].attempt]
    /\ \A j, k \in 1..Len(calls) : j < k => calls[j].attempt < calls[k].attempt
    /\ \A k \in 1..Len(trace) : trace[k].attempt = calls[k].attempt
    /\ Len(trace) <= Len(calls) /\ Len(calls) <= Len(trace) + 1

\* all five attempts were called, each one after the failure of the one before
C2_Witness ==
    /\ pc = "done" /\ outcome.kind = "allFailed"
    /\ Len(calls) = 5 /\ Len(trace) = 5

\* the failed provider calls of this invocation, as (provider, model) pairs
RECURSIVE FailedCalls(_)
FailedCalls(tr) ==
    IF tr = <<>> THEN <<>>
    ELSE (IF Head(tr).ok THEN <<>>
          ELSE << <<FALLBACK_MODELS[Head(tr).attempt].provider,
                    FALLBACK_MODELS[Head(tr).attempt].model>> >>)
         \o FailedCalls(Tail(tr))

RecordedPairs(recs) == [k \in 1..Len(recs) |-> <<recs[k].provider, recs[k].model>>]

\* C3: when the call resolves, the failure records are exactly the provider
\* calls that were issued and failed, one record each and none for skipped
\* attempts, and the all-providers-failed error enumerates exactly them.
C3_FailureRecords ==
    pc = "done" =>
        /\ RecordedPairs(failedAttempts) = FailedCalls(trace)
        /\ outcome.kind = "allFailed" => RecordedPairs(outcome.reasons) = FailedCalls(trace)

\* C4: in mock mode a request with a non-empty messages array, valid contents
\* and a positive maxTokens returns the fixed placeholder, and no provider
\* call is ever issued.
C4_ValidRequest ==
    /\ messages.t = "array" /\ Len(messages.items) > 0
    /\ \A i \in 1..Len(messages.items) :
          /\ messages.items[i].t = "object"
          /\ messages.items[i].content.t = "string"
          /\ StrLen(messages.items[i].content.s) \in 1..100000
    /\ StrLen(Trim(JoinContents(messages.items))) > 0
    /\ maxTokens.t = "number" /\ maxTokens.n >= 1

C4_MockMode ==
    mockMode =>
        /\ calls = <<>> /\ inflight = {} /\ trace = <<>>
        /\ (pc = "done" /\ C4_ValidRequest) =>
              /\ outcome.kind = "mock"
              /\ outcome.content.t = "string"
              /\ outcome.content.s =
                    IF variant = "main" THEN Words(<<4, 8, 16>>)
                    ELSE Words(<<4, 8, 10, 6, 4, 3, 2, 7, 15, 3, 9, 5, 3, 5>>)

\* the placeholder was returned although all three clients are there
C4_Witness ==
    /\ mockMode /\ pc = "done" /\ outcome.kind = "mock"
    /\ gemini /\ groq /\ openai
    /\ Len(messages.items) = 2

\* C5: modelRouter.js rejects a malformed request before anything else: a
\* request that is not a valid one (as in C4) ends with an input-validation
\* error, with or without mock mode, and no provider call is issued for it.
C5_InvalidRejected ==
    (variant = "main" /\ pc # "idle" /\ ~C4_ValidRequest) =>
        /\ pc = "done"
        /\ outcome.kind = "inputError"
        /\ calls = <<>>

\* C6: an attempt whose client variable is null is never invoked and never
\* recorded as a failure, and the loop goes on past it: every attempt the loop
\* has passed was called if and only if its client was there.
C6_HasClient(i) ==
    CASE FALLBACK_MODELS[i].provider = "gemini" -> gemini
      [] FALLBACK_MODELS[i].provider = "groq" -> groq
      [] FALLBACK_MODELS[i].provider = "openai" -> openai
      [] OTHER -> TRUE

C6_SkipWithoutClient ==
    /\ \A i \in CalledAttempts : C6_HasClient(i)
    /\ \A k \in 1..Len(trace) : C6_HasClient(trace[k].attempt)
    /\ \A k \in 1..Len(failedAttempts) :
          \E i \in 1..NumAttempts :
              /\ FALLBACK_MODELS[i].provider = failedAttempts[k].provider
              /\ C6_HasClient(i)
    /\ pc \in {"loop", "await"} =>
          \A i \in 1..NumAttempts : i < idx => (i \in CalledAttempts <=> C6_HasClient(i))
    /\ (pc = "done" /\ outcome.kind = "allFailed") =>
          CalledAttempts = { i \in 1..NumAttempts : C6_HasClient(i) }

\* only Groq has a client: both Gemini attempts and OpenAI were passed over
C6_Witness ==
    /\ ~gemini /\ groq /\ ~openai
    /\ pc = "done" /\ outcome.kind = "allFailed"
    /\ CalledAttempts = {3, 5}
    /\ Len(trace) = 2

\* C14: whatever callModel returns, from a provider or as the mock
\* placeholder, carries as choices[0].message.content a string that is not
\* empty after trimming.
C14_CanonicalResult ==
    pc = "done" /\ outcome.kind \in {"success", "mock"} =>
        /\ outcome.content.t = "string"
        /\ StrLen(Trim(outcome.content.s)) > 0

\* a response of the last provider was returned after earlier attempts failed
C14_Witness ==
    /\ pc = "done" /\ outcome.kind = "success"
    /\ FALLBACK_MODELS[outcome.attempt].provider = "ollama"
    /\ \E k \in 1..Len(trace) : ~trace[k].ok
    /\ outcome.content = JStr(Txt(7))

\* C15: a provider call that fails (rejection, HTTP status, missing, empty or
\* ill-typed content, shape mismatch) does not end the invocation: the loop
\* moves to the next attempt with no outcome set, and the all-providers-failed
\* error is thrown only once the loop has passed the last attempt.
C15_FailedStep ==
    pc = "await" /\ Len(trace') = Len(trace) + 1 /\ ~trace'[Len(trace')].ok =>
        /\ pc' = "loop"
        /\ idx' = idx + 1
        /\ outcome' = NoOutcome
        /\ inflight' = {}

C15_NoFailureIsFatal ==
    /\ [][C15_FailedStep]_vars
    /\ [](outcome.kind = "allFailed" => idx = NumAttempts + 1 /\ pc = "done")

\* the call of attempt 2 is awaited after the call of attempt 1 failed
C15_Witness ==
    /\ pc = "await" /\ idx = 2
    /\ Len(trace) = 1 /\ ~trace[1].ok
    /\ Len(calls) = 2 /\ outcome = NoOutcome

\* C16: an invocation of callModel that has entered the loop completes, and a
\* completed invocation of modelRouter.js has exactly one of four outcomes:
\* an input-validation error (no provider was called), the mock placeholder
\* (no provider was called), the validated response of the one attempt that
\* succeeded, or the all-providers-failed error (every call failed, the list
\* is used up).  It never returns a value without content; while it runs it
\* has no outcome.
C16_Outcome ==
    variant = "main" /\ pc = "done" =>
        CASE outcome.kind = "inputError" -> calls = <<>> /\ outcome.message # NoError
          [] outcome.kind = "mock" -> calls = <<>> /\ outcome.content = MockContent("main")
          [] outcome.kind = "success" ->
                /\ outcome.content.t = "string"
                /\ trace # <<>> /\ trace[Len(trace)] = [attempt |-> outcome.attempt, ok |-> TRUE]
                /\ \A k \in 1..(Len(trace) - 1) : ~trace[k].ok
          [] outcome.kind = "allFailed" ->
                /\ idx = NumAttempts + 1
                /\ \A k \in 1..Len(trace) : ~trace[k].ok
          [] OTHER -> FALSE

C16_Completes ==
    /\ (pc \in {"loop", "await"}) ~> (pc = "done")
    /\ [](C16_Outcome)
    /\ [](pc # "done" => outcome = NoOutcome)
    /\ [][(pc \in {"loop", "await"}) => (idx' >= idx /\ Len(calls') >= Len(calls))]_vars

\* the fifth attempt answered after the four before it had failed
C16_Witness ==
    /\ variant = "main" /\ pc = "done"
    /\ outcome.kind = "success" /\ outcome.attempt = 5 /\ Len(trace) = 5

\* C17: within one invocation at most one provider call is in flight, and a
\* call is issued only when every call issued before it has settled.
C17_OneInFlight ==
    /\ Cardinality(inflight) <= 1
    /\ pc = "await" => inflight = {idx} /\ Len(calls) = Len(trace) + 1
                       /\ calls[Len(calls)].attempt = idx
    /\ pc # "await" => inflight = {} /\ Len(calls) = Len(trace)

C17_Sequential ==
    /\ [](C17_OneInFlight)
    /\ [][Len(calls') > Len(calls) => inflight = {} /\ Len(trace) = Len(calls)]_vars

\* the third call is in flight after the first two have failed
C17_Witness ==
    /\ pc = "await" /\ inflight = {3}
    /\ Len(calls) = 3 /\ Len(trace) = 2

\* C18: over every interleaving of callModel and initializeClients, a client
\* exists only if its API key is set and not blank, and a client that exists
\* is never reset.
C18_LazyClients ==
    /\ [](/\ gemini => env["gemini"] = "present"
          /\ groq => env["groq"] = "present"
          /\ openai => env["openai"] = "present")
    /\ [][(gemini => gemini') /\ (groq => groq') /\ (openai => openai')]_vars

\* C19: every provider call of an invocation whose maxTokens is a number >= 1
\* carries the token budget min(maxTokens, 2000).
C19_BudgetClamped ==
    maxTokens.t = "number" /\ maxTokens.n >= 1 =>
        \A k \in 1..Len(calls) :
            calls[k].budget = JNum(IF maxTokens.n < 2000 THEN maxTokens.n ELSE 2000)

\* C27: the model name handed to callModel has no part in the routing: the
\* provider calls of an invocation are the entries of FALLBACK_MODELS, each
\* with the entry's own model, starting at the first entry whose provider has
\* a client and going up the list, and the invocation returns the content of
\* its last call; so two invocations that differ in the name alone issue the
\* same calls.  The model pickModel names need not be the one asked first.
C27_HintIgnored ==
    /\ \A i \in 1..Len(calls) :
          /\ calls[i].provider = FALLBACK_MODELS[calls[i].attempt].provider
          /\ calls[i].model = FALLBACK_MODELS[calls[i].attempt].model
          /\ \A k \in 1..(calls[i].attempt - 1) :
                \/ ~ClientOf(FALLBACK_MODELS[k].provider)
                \/ \E j \in 1..(i - 1) : calls[j].attempt = k
    /\ pc = "done" /\ outcome.kind = "success" =>
          /\ calls # <<>>
          /\ outcome.attempt = calls[Len(calls)].attempt

\* the caller named the last fallback model or gemini-2.0-pro, and the first
\* call went to gemini-2.0-flash and was the one that answered
C27_Witness ==
    /\ pc = "done" /\ outcome.kind = "success"
    /\ modelName \in {"llama3", "gemini-2.0-pro"}
    /\ Len(calls) = 1 /\ calls[1].model = "gemini-2.0-flash"

\* C29: for a request with non-empty messages of non-empty string contents
\* and a positive maxTokens, with mock mode off and the same credentials and
\* provider outcomes, the two routers issue provider calls for the same
\* attempts in the same order and end the same way.
C29_RoutersAgree ==
    twin.pc = "done" =>
        /\ twin.optimized.calls = twin.main.calls
        /\ twin.optimized.end = twin.main.end
        /\ twin.optimized.attempt = twin.main.attempt

(***************************************************************************)
(* Claims about the sanitizer                                              *)
(***************************************************************************)
C7_NonBlank(v) == v.t = "string" /\ Trim(v.s) # <<>>

\* C7: validateReview is total. For every input it returns (it never throws)
\* a document whose summary has at most 3000 characters, whose comments,
\* patches and testCases have at most 100, 30 and 20 entries, whose test
\* cases are strings of at most 500 characters, whose status is "default" or
\* "validated", and whose comments and patches all have a file and a payload
\* that are strings with something left after trimming.
C7_SanitizerTotal ==
    /\ spc = "ready" => ENABLED ValidateReview
    /\ spc = "done" =>
          /\ StrLen(review.summary) <= 3000
          /\ Len(review.comments) <= 100
          /\ Len(review.patches) <= 30
          /\ Len(review.testCases) <= 20
          /\ \A i \in 1..Len(review.testCases) :
                /\ review.testCases[i].t = "string"
                /\ StrLen(review.testCases[i].s) <= 500
          /\ review.status \in {"default", "validated"}
          /\ \A i \in 1..Len(review.comments) :
                /\ C7_NonBlank(review.comments[i].file)
                /\ C7_NonBlank(review.comments[i].comment)
          /\ \A i \in 1..Len(review.patches) :
                /\ C7_NonBlank(review.patches[i].file)
                /\ C7_NonBlank(review.patches[i].diff)

\* 101 well-formed comments came in and 100 went out
C7_Witness ==
    /\ spc = "done" /\ review.status = "validated"
    /\ data.comments.t = "array" /\ Len(data.comments.items) = 101
    /\ Len(review.comments) = 100

\* C10: the comments returned are the entries of an array-valued comments
\* property that are objects with a string file and a string comment, both
\* non-empty after trimming; they are returned unmodified, in their order, the
\* first 100 of them; anything but an array gives no comments. Of the
\* specification's four example entries only the first is returned.
C10_Valid(c) ==
    /\ c.t = "object"
    /\ c.file.t = "string" /\ Trim(c.file.s) # <<>>
    /\ c.comment.t = "string" /\ Trim(c.comment.s) # <<>>

C10_Survivors ==
    IF data.t \in {"object", "array"} /\ data.comments.t = "array"
    THEN SelectSeq(data.comments.items, C10_Valid)
    ELSE <<>>

C10_CommentFilter ==
    spc = "done" =>
        /\ Len(review.comments) =
              (IF Len(C10_Survivors) < 100 THEN Len(C10_Survivors) ELSE 100)
        /\ \A i \in 1..Len(review.comments) : review.comments[i] = C10_Survivors[i]
        /\ data.comments = ArrField(ExampleComments) =>
              review.comments = <<CommentItem(JStr(Txt(4)), JStr(Txt(2)), 1)>>

\* the specification's example was sanitized
C10_Witness ==
    /\ spc = "done"
    /\ data.comments = ArrField(ExampleComments)
    /\ Len(review.comments) = 1

\* the length of a string without its leading and trailing whitespace
C11_TrimmedLen(s) ==
    StrLen(s) - (IF s # <<>> /\ s[1].ws THEN s[1].n ELSE 0)
              - (IF Len(s) > 1 /\ s[Len(s)].ws THEN s[Len(s)].n ELSE 0)

\* C11 (amended): for an input object with a string summary, the summary
\* returned starts at the first non-whitespace character and has
\* min(3000, n) characters, where n is the length of the trimmed summary; it
\* has exactly 3000 characters when the summary has 5000 characters of which
\* at most 2000 are leading or trailing whitespace. A summary that is not a
\* string is replaced by the generic "Code review completed.".
C11_SummaryCut ==
    spc = "done" /\ data.t = "object" =>
        IF data.summary.t = "string"
        THEN LET n == C11_TrimmedLen(data.summary.s)
             IN  /\ StrLen(review.summary) = (IF n < 3000 THEN n ELSE 3000)
                 /\ review.summary # <<>> => ~review.summary[1].ws
                 /\ StrLen(data.summary.s) = 5000 /\ n >= 3000 =>
                        StrLen(review.summary) = 3000
        ELSE review.summary = Txt(4) \o Blank(1) \o Txt(6) \o Blank(1) \o Txt(10)

\* a summary of 5000 non-whitespace characters came back with 3000
C11_Witness ==
    /\ spc = "done" /\ data.t = "object"
    /\ data.summary = StrField(Txt(5000))
    /\ review.summary = Txt(3000)

\* C11 as stated: every string summary of 5000 characters comes back with
\* exactly 3000 characters.
C11_AnyFiveThousand ==
    spc = "done" /\ data.t = "object" /\ data.summary.t = "string"
        /\ StrLen(data.summary.s) = 5000 =>
            StrLen(review.summary) = 3000

\* C22: validateReview returns the default document (status "default", no
\* comments, patches or test cases, the generic summary) exactly when its
\* argument is not an object, and a document of status "validated" for every
\* object; the values JSON.parse hands it raise no exception on the way.
C22_IsObject == data.t \in {"object", "array"}

C22_Status ==
    spc = "done" =>
        /\ review.status \in {"default", "validated"}
        /\ review.status = "default" <=> ~C22_IsObject
        /\ review.status = "default" =>
              /\ review.comments = <<>> /\ review.patches = <<>> /\ review.testCases = <<>>
              /\ review.summary = Words(<<9, 4, 6, 10, 6, 6, 3, 9>>)
        /\ C22_IsObject => review.status = "validated"

\* a string was handed over and the default document came back
C22_Witness ==
    /\ spc = "done" /\ data.t = "string"
    /\ review.status = "default" /\ review.comments = <<>>

\* C23: the patches returned are the entries of an array-valued patches
\* property that are objects with a string file and a string diff, both
\* non-empty after trimming, unmodified and in their order, and only the first
\* 30 of them: the cap counts the entries that passed the filter, not the
\* entries of the input.
C23_Valid(p) ==
    /\ p.t = "object"
    /\ p.file.t = "string" /\ Trim(p.file.s) # <<>>
    /\ p.diff.t = "string" /\ Trim(p.diff.s) # <<>>

C23_Survivors ==
    IF data.t \in {"object", "array"} /\ data.patches.t = "array"
    THEN SelectSeq(data.patches.items, C23_Valid)
    ELSE <<>>

C23_PatchFilter ==
    spc = "done" =>
        /\ Len(review.patches) =
              (IF Len(C23_Survivors) < 30 THEN Len(C23_Survivors) ELSE 30)
        /\ \A i \in 1..Len(review.patches) : review.patches[i] = C23_Survivors[i]

\* of 49 patches every third one was dropped, and the 30 returned reach
\* beyond the first 30 of the input
C23_Witness ==
    /\ spc = "done" /\ data.patches.t = "array"
    /\ Len(data.patches.items) = 49 /\ Len(C23_Survivors) = 33
    /\ Len(review.patches) = 30 /\ review.patches[30] = data.patches.items[44]

\* C24: the test cases returned are the string entries of an array-valued
\* testCases property that have something left after trimming, each cut to
\* its first 500 characters, in their order, the first 20 of them; each one
\* returned is a non-empty string.
C24_Valid(tc) == tc.t = "string" /\ Trim(tc.s) # <<>>

C24_Survivors ==
    IF data.t \in {"object", "array"} /\ data.testCases.t = "array"
    THEN SelectSeq(data.testCases.items, C24_Valid)
    ELSE <<>>

C24_TestCases ==
    spc = "done" =>
        /\ Len(review.testCases) =
              (IF Len(C24_Survivors) < 20 THEN Len(C24_Survivors) ELSE 20)
        /\ \A i \in 1..Len(review.testCases) :
              /\ review.testCases[i].t = "string"
              /\ review.testCases[i].s = Substring(C24_Survivors[i].s, 500)
              /\ StrLen(review.testCases[i].s) <= 500
              /\ StrLen(review.testCases[i].s) > 0

\* a test case of 507 characters came back with 500, after empty ones were
\* dropped and the rest was capped
C24_Witness ==
    /\ spc = "done" /\ data.testCases.t = "array"
    /\ Len(data.testCases.items) = 34 /\ Len(review.testCases) = 20
    /\ StrLen(data.testCases.items[1].s) = 507
    /\ StrLen(review.testCases[1].s) = 500

(***************************************************************************)
(* Claims about the review route                                           *)
(***************************************************************************)
\* C12: a failure of callModel's input validation and the failure of every
\* provider are told apart by the route: the response to the first never
\* has the status the same request gets when all providers failed.
C12_ClassesToldApart ==
    hpc = "done" /\ upstream.kind = "inputError" =>
        sent.code # Respond(req,
                            Threw("allFailed",
                                  "All AI providers failed - no response generated. Check API keys and connectivity.",
                                  <<>>),
                            NotDecoded).code

\* C13: when callModel returned a text and extractJSON fails on it, the
\* handler answers with status 200 and the default review document: its
\* summary is the first 2000 characters of the text (the whole text when it
\* is shorter), its comments, patches and test cases are empty.
C13_DecodeFailed ==
    /\ hpc = "done" /\ upstream.kind \in {"success", "mock"}
    /\ extractJSON(upstream.content).kind = "threw"

C13_RawFallback ==
    C13_DecodeFailed =>
        LET c == upstream.content.c
            n == IF Len(c) < 2000 THEN Len(c) ELSE 2000
        IN  /\ sent.code = 200
            /\ sent.doc.status = "default"
            /\ sent.doc.summary = RunLength(SubSeq(c, 1, n), 1, n)
            /\ StrLen(sent.doc.summary) = n
            /\ sent.doc.comments = <<>> /\ sent.doc.patches = <<>>
            /\ sent.doc.testCases = <<>>

\* a text of more than 2000 characters that is no JSON was answered
C13_Witness ==
    /\ C13_DecodeFailed
    /\ Len(upstream.content.c) > 2000
    /\ sent.code = 200 /\ StrLen(sent.doc.summary) = 2000

\* C26: whatever the review handler answers (400, 500, the raw-text fallback
\* or the sanitized review), the body carries summary, comments, patches,
\* testCases and status, with a summary of at most 3000 characters and at
\* most 100 comments, 30 patches and 20 test cases; and callModel is awaited
\* only for a request in which validatePRInput found no error.
C26_Envelope ==
    /\ hpc = "done" =>
          /\ sent.code \in {200, 400, 500}
          /\ DOMAIN sent.doc = {"summary", "comments", "patches", "testCases", "status"}
          /\ StrLen(sent.doc.summary) <= 3000
          /\ Len(sent.doc.comments) <= 100
          /\ Len(sent.doc.patches) <= 30
          /\ Len(sent.doc.testCases) <= 20
          /\ sent.doc.status \in {"default", "validated"}
    /\ hpc = "calling" \/ upstream.kind # "none" => validatePRInput(req.body) = <<>>

\* the model was called for a valid request and its review went out sanitized
C26_Witness ==
    /\ hpc = "done" /\ sent.code = 200 /\ ~sent.raw
    /\ upstream.kind = "success"
    /\ sent.doc.status = "validated" /\ Len(sent.doc.comments) > 0
    /\ validatePRInput(req.body) = <<>>

(***************************************************************************)
(* Claims about the server                                                 *)
(***************************************************************************)
\* C25: a request gets at most one response: once the timeout callback or
\* the route handler has sent one, the other does not call res.json again,
\* and the process keeps running when the handler finishes after a 408.
C25_OneResponse ==
    /\ Len(server.sends) <= 1
    /\ \A i \in 1..Len(server.sends) : ~server.sends[i].threw
    /\ server.alive

\* C28: postPRComment is called at most once, and only after getPRDiff
\* returned a non-empty diff and reviewDiff a review whose rendered text is
\* not blank; a request with an x-event-key that does not start with
\* "pullrequest:", without a pullrequest object or without a numeric id (a
\* number, or a string that is a number) causes no diff fetch and no comment;
\* a request gets one response and no more.
C28_NumericId ==
    \/ hook.id.t = "number"
    \/ /\ hook.id.t = "string"
       /\ ~parseInt(hook.id.c).nan
       /\ LET b == SkipOver(RegexWs, hook.id.c, 1)
              d == IF At(hook.id.c, b) \in {"-", "+"} THEN b + 1 ELSE b
          IN  \A i \in d..Len(hook.id.c) : DigitVal(hook.id.c[i]) >= 0

C28_Ordering ==
    /\ Len(hook.posted) <= 1
    /\ hook.posted # <<>> =>
          /\ hook.diffs = <<"diff">> /\ Len(hook.reviews) = 1
          /\ hook.posted[1] = hook.reviews[1].text
          /\ StrLen(Trim(hook.posted[1])) > 0

C28_Responses ==
    /\ Len(hook.responses) <= 1
    /\ hook.pc = "done" <=> Len(hook.responses) = 1

C28_WebhookOrdering ==
    /\ C28_Ordering
    /\ \/ hook.eventKey \in {"pullrequest", "repo:push"}
       \/ hook.pr # "object"
       \/ ~C28_NumericId
       => hook.fetched = <<>> /\ hook.posted = <<>>
    /\ C28_Responses

(***************************************************************************)
(* Claims about buildFileContext                                           *)
(***************************************************************************)
\* C30: for a non-empty string of n lines, a cursor line c (0 when it is
\* negative, missing or not a number) and a window k, buildFileContext
\* returns the lines of 0-based index max(c-k,0) up to but not including
\* min(c+k,n), each with its 1-based number, at most 2k of them, and nothing
\* when max(c-k,0) >= n or when the content is empty or not a string.
C30_Window ==
    ctxt.pc = "done" =>
        LET c == IF ctxt.line.t = "number" /\ ctxt.line.v > 0 THEN ctxt.line.v ELSE 0
            k == ctxt.contextLines
            lo == MaxOf({c - k, 0})
            hi == MinOf({c + k, ctxt.n})
        IN  /\ Len(ctxt.result) <= 2 * k
            /\ IF ctxt.content = "string" /\ ctxt.n > 0 /\ lo < ctxt.n
               THEN /\ Len(ctxt.result) = hi - lo
                    /\ \A i \in 1..(hi - lo) :
                          ctxt.result[i] = [number |-> lo + i, line |-> lo + i - 1]
               ELSE ctxt.result = <<>>

(***************************************************************************)
(* Claims about the decoder                                                *)
(***************************************************************************)
\* C8: for every JSON object X, extractJSON applied to stringify(X), and to
\* stringify(X) inside a fenced json block, returns a value equal to X.
C8_RoundTrip ==
    dpc = "done" /\ origin.form \in Forms =>
        /\ decoded.kind = "returned"
        /\ decoded.val = origin.x

\* an object with a fence inside one of its strings came back from a fenced
\* block: the fenced strategy was cut short and the bracket strategy found it
C8_Witness ==
    /\ dpc = "done" /\ origin.form = "fencedLines"
    /\ origin.x = VObj(<<Member(Word.summary, VStr(Fence)), Member(<<"a">>, VNum(1))>>)
    /\ decoded.kind = "returned" /\ decoded.tried = <<1, 2, 3>>
    /\ decoded.val = origin.x

\* what strategy k hands to JSON.parse, and whether that parses
C9_Candidate(k) ==
    CASE k = 1 -> DirectCandidate(text.c)
      [] k = 2 -> FencedCandidate(text.c)
      [] k = 3 -> BracketCandidate(text.c)
      [] k = 4 -> LabeledCandidate(text.c)
C9_Parses(k) == C9_Candidate(k).found /\ JSONparse(C9_Candidate(k).cap).ok
C9_Value(k) == JSONparse(C9_Candidate(k).cap).val

\* C9: extractJSON tries the direct parse, then the fenced block, then the
\* bracketed span, then the labeled object, in this order, and returns the
\* value of the lowest-numbered strategy that parses (it fails when none
\* does); a text that is valid JSON and holds a fenced block with other JSON
\* gives the directly parsed value.
C9_StrategyOrder ==
    dpc = "done" /\ text.t = "string" /\ TrimText(text.c) # <<>> =>
        LET parsing == { k \in 1..4 : C9_Parses(k) }
            tried == decoded.tried
        IN  /\ tried # <<>> /\ tried[1] = 1
            /\ \A i, j \in 1..Len(tried) : i < j => tried[i] < tried[j]
            /\ IF parsing = {}
               THEN decoded.kind = "threw" /\ decoded.message = DecodeFailure
               ELSE /\ decoded.kind = "returned"
                    /\ decoded.val = C9_Value(MinOf(parsing))
                    /\ tried[Len(tried)] = MinOf(parsing)
            /\ C9_Parses(1) /\ C9_Parses(2) /\ C9_Value(1) # C9_Value(2) =>
                  decoded.val = C9_Value(1)

\* a JSON string that holds a fenced 1 was decoded to the string
C9_Witness ==
    /\ dpc = "done"
    /\ text = StrArg(Quote(Fence \o <<"1">> \o Fence))
    /\ C9_Parses(1) /\ C9_Parses(2) /\ C9_Value(2) = VNum(1)
    /\ decoded.kind = "returned" /\ decoded.val = VStr(Fence \o <<"1">> \o Fence)

\* C20: a text that is no string, is empty or holds only whitespace makes
\* extractJSON throw an input error before any strategy has parsed anything;
\* the error differs from the one thrown when every strategy has failed,
\* which is thrown only for a non-blank string after the direct parse was
\* tried.
C20_InputCheck ==
    dpc = "done" =>
        IF text.t # "string" \/ Len(TrimText(text.c)) = 0
        THEN /\ decoded.kind = "threw"
             /\ decoded.tried = <<>>
             /\ decoded.message \in {InvalidInput, EmptyText}
             /\ decoded.message # DecodeFailure
        ELSE /\ decoded.kind = "threw" => decoded.message = DecodeFailure
             /\ decoded.tried # <<>> /\ decoded.tried[1] = 1

\* a text of whitespace only was refused
C20_Witness ==
    /\ dpc = "done" /\ text = StrArg(<<SP, NL, SP>>)
    /\ decoded = Throw(EmptyText, <<>>)

\* C21: for a non-blank string, extractJSON throws exactly when none of the
\* four strategies has a candidate that parses, and then it throws the
\* exhaustion error after having handed every candidate found to JSON.parse;
\* a strategy whose candidate parses makes it return a value, whatever the
\* strategies before it did.
C21_Exhaustion ==
    dpc = "done" /\ text.t = "string" /\ TrimText(text.c) # <<>> =>
        /\ decoded.kind \in {"threw", "returned"}
        /\ decoded.kind = "threw" <=> \A k \in 1..4 : ~C9_Parses(k)
        /\ decoded.kind = "threw" =>
              /\ decoded.message = DecodeFailure
              /\ \A k \in 1..4 :
                    C9_Candidate(k).found <=> \E i \in 1..Len(decoded.tried) : decoded.tried[i] = k
        /\ \A k \in 1..4 : C9_Parses(k) => decoded.kind = "returned"

\* three candidates were found and did not parse, the fourth one did
C21_Witness ==
    /\ dpc = "done" /\ decoded.kind = "returned"
    /\ decoded.tried = <<1, 2, 3, 4>>
    /\ ~C9_Parses(1) /\ ~C9_Parses(2) /\ ~C9_Parses(3) /\ C9_Parses(4)

====
